---- MODULE Spec2Model ----
(***************************************************************************)
(* Model of isofit's multi-engine radiative-transfer compositor            *)
(* (isofit/radiative_transfer/radiative_transfer.py, class                 *)
(* RadiativeTransfer).                                                     *)
(*                                                                         *)
(* Numbers are exact rationals <<n, d>> (d > 0, lowest terms) and the      *)
(* special floats: <<0, 1>> and <<0, -1>> are +0.0 and -0.0, <<1, 0>> and  *)
(* <<-1, 0>> are +inf and -inf, <<0, 0>> is NaN (numpy divides by zero     *)
(* with a warning, not an exception).  A float is negative when its        *)
(* numerator is, or when it is -0.0.  A numpy 1-d array is a sequence of   *)
(* such numbers;                                                           *)
(* element-wise arithmetic follows numpy's broadcasting rule for 1-d       *)
(* operands and yields the empty sequence when numpy raises ValueError     *)
(* (every array of the model is non-empty).                                *)
(***************************************************************************)
EXTENDS Integers, Sequences, FiniteSets, TLC

VARIABLES
    phase,              \* "new" | "ok" | "failed": outcome of RadiativeTransfer.__init__
    config,             \* the configuration handed to __init__
    instantiated,       \* engine configurations instantiated so far, in order
    rt_engines,         \* self.rt_engines
    wl,                 \* self.wl
    solar_irr,          \* self.solar_irr
    statevec_names,     \* self.statevec_names
    bvec,               \* self.bvec, the names of the unknowns
    bounds,             \* self.bounds, one [lo, hi] pair per state element
    scale,              \* self.scale
    init,               \* self.init
    prior_mean,         \* self.prior_mean
    prior_sigma,        \* self.prior_sigma
    topography_model,   \* self.topography_model
    glint_model,        \* self.glint_model
    L_coupled,          \* self.L_coupled, the retained list of coupled terms
    init_exc,           \* the exception __init__ raised, if any
    call,               \* the most recent completed call on the compositor
    prev,               \* the call completed before it
    ncalls,             \* number of calls made so far
    pc,                 \* per-thread position inside calc_rdn
    loc,                \* per-thread locals of calc_rdn
    ga                  \* KernelFlowsRT.ga, the retained per-MVM predictions

vars == <<phase, config, instantiated, rt_engines, wl, solar_irr,
          statevec_names, bvec, bounds, scale, init, prior_mean, prior_sigma,
          topography_model, glint_model, L_coupled, init_exc, call, prev,
          ncalls, pc, loc, ga>>

-----------------------------------------------------------------------------
(* Bounds                                                                  *)

MaxEngines == 2
MaxCalls == 2
MaxPoints == 12

-----------------------------------------------------------------------------
(* Rational arithmetic standing for float arithmetic                       *)

Abs(n) == IF n < 0 THEN -n ELSE n

RECURSIVE GCD(_, _)
GCD(a, b) == IF b = 0 THEN a ELSE GCD(b, a % b)

NaN == <<0, 0>>

IsNaN(x) == x = NaN

\* n/d in lowest terms with a positive denominator
Norm(n, d) ==
    LET \* a/b divided through by the common factor g
        Reduce(a, b, g) == <<a \div g, b \div g>>
    IN  IF d = 0 THEN NaN
        ELSE Reduce(IF d < 0 THEN -n ELSE n, Abs(d), GCD(Abs(n), Abs(d)))

\* the sum over the least common denominator (g the gcd of the
\* denominators), so that intermediate products stay small
AddG(x, y, g) == Norm(x[1] * (y[2] \div g) + y[1] * (x[2] \div g), (x[2] \div g) * y[2])

\* x + y: inf + (-inf) is NaN, an infinite operand wins otherwise; the sum
\* of two zeros is -0.0 only when both are, and an exact cancellation is +0.0
RAdd(x, y) ==
    IF x[2] = 0 THEN (IF y[2] = 0 /\ y # x THEN NaN ELSE x)
    ELSE IF y[2] = 0 \/ x[1] = 0
    THEN (IF y[1] = 0 /\ y[2] # 0 /\ (x[2] > 0 \/ y[2] > 0) THEN <<0, 1>> ELSE y)
    ELSE IF y[1] = 0 THEN x
    ELSE AddG(x, y, GCD(x[2], y[2]))

\* x - y = x + (-y); negation flips the sign of a zero as well
RSub(x, y) == RAdd(x, <<-y[1], IF y[1] = 0 THEN -y[2] ELSE y[2]>>)

\* the product with the common factors cancelled first
MulG(x, y, g, h) == Norm((x[1] \div g) * (y[1] \div h), (x[2] \div h) * (y[2] \div g))

\* x * y: with an infinite operand the product is infinite (NaN when the
\* other operand is zero or NaN), with a zero operand otherwise it is zero;
\* both carry the product of the signs
RMul(x, y) ==
    IF x[2] = 0 \/ y[2] = 0
    THEN <<IF x[1] = 0 \/ y[1] = 0 THEN 0
           ELSE IF (x[1] < 0 \/ x[2] < 0) = (y[1] < 0 \/ y[2] < 0) THEN 1 ELSE -1, 0>>
    ELSE IF x[1] = 0 \/ y[1] = 0
    THEN <<0, IF (x[1] < 0 \/ x[2] < 0) = (y[1] < 0 \/ y[2] < 0) THEN 1 ELSE -1>>
    ELSE MulG(x, y, GCD(Abs(x[1]), y[2]), GCD(Abs(y[1]), x[2]))

\* x / y = x * (1 / y): 1 / 0 is inf and 1 / inf is 0, of the divisor's sign,
\* so that 0 / 0 and inf / inf are NaN
RDiv(x, y) ==
    RMul(x, IF y[1] = 0 \/ y[2] = 0 THEN <<y[2], y[1]>> ELSE Norm(y[2], y[1]))

\* np.pi as a rational: the continued-fraction convergent 5419351/1725033
\* = 3.14159265358982, within 2.3e-14 of the double 3.141592653589793; the
\* next convergent no longer fits the products of 32-bit integer arithmetic
Pi == <<5419351, 1725033>>

\* stand-in for isofit.core.common.eps, the finite-difference step
Eps == <<1, 4>>

-----------------------------------------------------------------------------
(* numpy 1-d arrays                                                        *)

Raised == <<>>

\* the explicit tuple / table of a function given by a rule (same value)
Tup(f) == f \o <<>>
Tab(f) == f @@ <<>>

\* element-wise binary operations with broadcasting of length-1 operands
Broadcastable(a, b) ==
    /\ a # Raised
    /\ b # Raised
    /\ (Len(a) = Len(b) \/ Len(a) = 1 \/ Len(b) = 1)

BLen(a, b) == IF Len(a) = 1 THEN Len(b) ELSE Len(a)

Ix(a, j) == IF Len(a) = 1 THEN 1 ELSE j

VAdd(a, b) ==
    IF ~Broadcastable(a, b) THEN Raised
    ELSE Tup([j \in 1..BLen(a, b) |-> RAdd(a[Ix(a, j)], b[Ix(b, j)])])

VSub(a, b) ==
    IF ~Broadcastable(a, b) THEN Raised
    ELSE Tup([j \in 1..BLen(a, b) |-> RSub(a[Ix(a, j)], b[Ix(b, j)])])

VMul(a, b) ==
    IF ~Broadcastable(a, b) THEN Raised
    ELSE Tup([j \in 1..BLen(a, b) |-> RMul(a[Ix(a, j)], b[Ix(b, j)])])

VDiv(a, b) ==
    IF ~Broadcastable(a, b) THEN Raised
    ELSE Tup([j \in 1..BLen(a, b) |-> RDiv(a[Ix(a, j)], b[Ix(b, j)])])

\* array (op) python scalar
VScale(a, c) == VMul(a, <<c>>)
VOver(a, c) == VDiv(a, <<c>>)

Const(n, c) == Tup([j \in 1..n |-> c])

RECURSIVE Flatten(_)
Flatten(ss) == IF ss = <<>> THEN <<>> ELSE Head(ss) \o Flatten(Tail(ss))

\* np.hstack / np.concatenate of a list of 1-d arrays (scalars become length 1)
hstack(ss) ==
    IF \E i \in 1..Len(ss) : ss[i] = Raised THEN Raised ELSE Flatten(ss)

RECURSIVE SumLen(_)
SumLen(ss) == IF ss = <<>> THEN 0 ELSE Len(Head(ss)) + SumLen(Tail(ss))

-----------------------------------------------------------------------------
(* Engines: table-backed providers bound to a wavelength sub-range.  The   *)
(* engine classes live outside this file; the doubles below carry the      *)
(* attributes the compositor reads and answer get() with per-wavelength    *)
(* arrays that are affine in the RT state.                                 *)

\* the registry imported from isofit.radiative_transfer.engines
Engines == {"modtran", "6s", "sRTMnet", "KernelFlowsGP"}

\* the ordered coupling-term names an engine declares
CouplingTerms == <<"dir-dir", "dif-dir", "dir-dif", "dif-dif">>

AllKeys == {"rhoatm", "sphalb", "transm_down_dir", "transm_down_dif",
            "transm_up_dir", "transm_up_dif",
            "thermal_upwelling", "thermal_downwelling"}
           \cup {CouplingTerms[i] : i \in 1..4}

IsCoupling(k) == \E i \in 1..4 : CouplingTerms[i] = k

\* relative size of each tabulated quantity (sphalb stays below 1)
Weight(k) ==
    CASE k = "dir-dir" -> <<1, 1>>
      [] k = "dif-dir" -> <<2, 1>>
      [] k = "dir-dif" -> <<3, 1>>
      [] k = "dif-dif" -> <<4, 1>>
      [] k = "transm_down_dir" -> <<1, 1>>
      [] k = "transm_down_dif" -> <<2, 1>>
      [] k = "transm_up_dir" -> <<1, 1>>
      [] k = "transm_up_dif" -> <<1, 2>>
      [] k = "sphalb" -> <<1, 2>>
      [] k = "rhoatm" -> <<1, 1>>
      [] k = "thermal_upwelling" -> <<3, 1>>
      [] k = "thermal_downwelling" -> <<5, 1>>

\* x_RT[1] + 2*x_RT[2] + ...: the direction in which the doubles respond
RECURSIVE StateSum(_, _)
StateSum(x, i) ==
    IF i > Len(x) THEN <<0, 1>>
    ELSE RAdd(RMul(<<i, 1>>, x[i]), StateSum(x, i + 1))

\* slope of quantity k of engine e with respect to the state sum
Slope(e, k) ==
    IF k = "rhoatm" \/ k = "thermal_upwelling" THEN e.a_atm
    ELSE IF IsCoupling(k) \/ k = "transm_down_dir" \/ k = "transm_down_dif"
         THEN e.a_cpl
    ELSE <<0, 1>>

\* RT.get(x_RT, geom): mapping key -> value; a value is tagged as an
\* np.ndarray (isarr) or as a bare scalar placeholder
RTget(e, x_RT, geom) ==
    Tab([k \in e.keys |->
        IF IsCoupling(k) /\ e.placeholder
        THEN [isarr |-> FALSE, v |-> << <<0, 1>> >>]
        ELSE [isarr |-> TRUE,
              v |-> Const(Len(e.wl),
                          RAdd(RMul(e.level, Weight(k)),
                               RMul(Slope(e, k), StateSum(x_RT, 1))))]])

Seg(s) == CASE s = 1 -> <<1, 2>>
            [] s = 2 -> <<3>>
            [] s = 3 -> <<4, 5>>

BaseEngine(s) ==
    [engine_name |-> "modtran",
     wl |-> Seg(s),
     solar_irr |-> [j \in 1..Len(Seg(s)) |-> <<Seg(s)[j], 1>>],
     rt_mode |-> "rdn",
     treat_as_emissive |-> FALSE,
     topography_model |-> FALSE,
     glint_model |-> FALSE,
     coupling_terms |-> CouplingTerms,
     nx |-> 1,
     has_coszen |-> TRUE,
     coszen |-> <<1, 1>>,
     keys |-> AllKeys,
     placeholder |-> FALSE,
     level |-> <<1, 1>>,
     a_atm |-> <<1, 1>>,
     a_cpl |-> <<1, 1>>]

\* single-engine doubles: one per feature of the engine interface
Variants(s) ==
    LET b == BaseEngine(s) IN
    { b,
      [b EXCEPT !.rt_mode = "transm", !.engine_name = "sRTMnet"],
      [b EXCEPT !.coszen = NaN],
      [b EXCEPT !.has_coszen = FALSE, !.coszen = NaN],
      [b EXCEPT !.treat_as_emissive = TRUE, !.level = <<1, 2>>],
      [b EXCEPT !.placeholder = TRUE],
      [b EXCEPT !.keys = AllKeys \ {"thermal_upwelling", "thermal_downwelling"},
                !.glint_model = TRUE],
      [b EXCEPT !.nx = 2],
      [b EXCEPT !.engine_name = "libradtran", !.coszen = <<1, 2>>] }

\* doubles combined into multi-engine configurations
Combined(s) ==
    LET b == BaseEngine(s) IN
    CASE s = 1 -> { b,
                    [b EXCEPT !.rt_mode = "transm", !.engine_name = "sRTMnet"],
                    [b EXCEPT !.engine_name = "libradtran", !.coszen = <<1, 2>>] }
      [] s = 2 -> { [b EXCEPT !.level = <<1, 2>>],
                    [b EXCEPT !.rt_mode = "transm", !.engine_name = "sRTMnet"],
                    [b EXCEPT !.treat_as_emissive = TRUE, !.level = <<1, 2>>] }
      [] OTHER -> { [b EXCEPT !.keys = AllKeys \ {"thermal_upwelling",
                                                  "thermal_downwelling"},
                              !.glint_model = TRUE, !.level = <<1, 2>>],
                    [b EXCEPT !.rt_mode = "transm", !.engine_name = "sRTMnet"],
                    [b EXCEPT !.nx = 2] }

StateVecs == { <<"H2OSTR">>, <<"H2OSTR", "AOT550">> }

\* doubles combined into configurations of three engines and more: one
\* radiance-mode double per wavelength segment and one whose state count
\* differs
Larger(s) ==
    LET b == BaseEngine(s) IN
    CASE s = 1 -> { b }
      [] s = 2 -> { [b EXCEPT !.level = <<1, 2>>] }
      [] OTHER -> { [b EXCEPT !.glint_model = TRUE, !.level = <<1, 2>>],
                    [b EXCEPT !.nx = 2] }

EngineLists ==
    LET Pool(n) == IF n = 2 THEN UNION {Combined(s) : s \in 1..3}
                   ELSE UNION {Larger(s) : s \in 1..3}
    IN
    { <<>> }
    \cup { <<e>> : e \in Variants(1) }
    \cup UNION { {es \in [1..n -> Pool(n)] :
                      \A i, j \in 1..n : i # j => es[i].wl[1] # es[j].wl[1]} :
                    n \in 2..MaxEngines }

\* configurations without nuisance parameters
Configs ==
    { [radiative_transfer_engines |-> es, statevector |-> sv, unknowns |-> <<>>] :
        es \in EngineLists, sv \in StateVecs }

\* configurations with nuisance parameters, with and without H2OSTR in the
\* state vector
ConfigsKb ==
    { [radiative_transfer_engines |-> es, statevector |-> sv, unknowns |-> u] :
        es \in EngineLists, sv \in StateVecs \cup { <<"AOT550">> },
        u \in { <<>>, <<"H2O_ABSCO">>, <<"CO2_ABSCO">>, <<"H2O_ABSCO", "CO2_ABSCO">> } }

-----------------------------------------------------------------------------
(* RadiativeTransfer.__init__                                              *)

NoExc == [type |-> "none", msg |-> "", name |-> "", valid |-> {},
          expected |-> -1, got |-> -1]

\* the f-string of the engine-name check names the undefined global RTE, so
\* building the message raises NameError before AttributeError is created
InvalidEngineExc(confRT) ==
    [type |-> "NameError", msg |-> "name 'RTE' is not defined",
     name |-> "", valid |-> {}, expected |-> -1, got |-> -1]

MismatchExc(expected, got) ==
    [type |-> "AttributeError",
     msg |-> "Mismatch between the number of elements for the config statevector and LUT.indices.x_RT",
     name |-> "", valid |-> {}, expected |-> expected, got |-> got]

\* the loop over config.radiative_transfer_engines: the engines instantiated
\* so far and the exception that ended the loop, if any
\* variant: the statevector-length check is left out
RECURSIVE InitLoop_nocheck(_, _, _)
InitLoop_nocheck(cfg, idx, made) ==
    IF idx > Len(cfg.radiative_transfer_engines)
    THEN [made |-> made, exc |-> NoExc]
    ELSE LET confRT == cfg.radiative_transfer_engines[idx] IN
         IF confRT.engine_name \notin Engines
         THEN [made |-> made, exc |-> InvalidEngineExc(confRT)]
         ELSE InitLoop_nocheck(cfg, idx + 1, Append(made, confRT))

RECURSIVE InitLoop(_, _, _)
InitLoop(cfg, idx, made) ==
    IF idx > Len(cfg.radiative_transfer_engines)
    THEN [made |-> made, exc |-> NoExc]
    ELSE LET confRT == cfg.radiative_transfer_engines[idx] IN
         IF confRT.engine_name \notin Engines
         THEN [made |-> made, exc |-> InvalidEngineExc(confRT)]
         ELSE LET rte == confRT
                  made2 == Append(made, rte)
                  expected == Len(cfg.statevector)
                  got == rte.nx
              IN  IF expected # got
                  THEN [made |-> made2, exc |-> MismatchExc(expected, got)]
                  ELSE InitLoop(cfg, idx + 1, made2)

\* list.sort(key=lambda x: x.wl[0]): stable insertion by first wavelength
RECURSIVE InsertByWl(_, _)
InsertByWl(sorted, e) ==
    IF sorted = <<>> THEN <<e>>
    ELSE IF e.wl[1] < Head(sorted).wl[1] THEN <<e>> \o sorted
    ELSE <<Head(sorted)>> \o InsertByWl(Tail(sorted), e)

RECURSIVE SortEnginesFrom(_, _)
SortEnginesFrom(es, acc) ==
    IF es = <<>> THEN acc
    ELSE SortEnginesFrom(Tail(es), InsertByWl(acc, Head(es)))

\* variant: the engines stay in configuration order
SortEngines_config(es) == es

SortEngines(es) == SortEnginesFrom(es, <<>>)

\* config.statevector.get_elements(): the configured state-vector elements
\* in order, each with its bounds, scale, initial value and prior
get_elements(names) ==
    [i \in 1..Len(names) |->
        IF names[i] = "H2OSTR"
        THEN [bounds |-> << <<1, 2>>, <<5, 1>> >>, scale |-> <<1, 1>>,
              init |-> <<3, 2>>, prior_mean |-> <<2, 1>>, prior_sigma |-> <<100, 1>>]
        ELSE [bounds |-> << <<1, 1000>>, <<1, 1>> >>, scale |-> <<1, 1>>,
              init |-> <<1, 20>>, prior_mean |-> <<1, 10>>, prior_sigma |-> <<10, 1>>]]

\* np.concatenate of an empty list raises ValueError: a configuration without
\* engines passes the loop and fails at self.wl
__init__(cfg) ==
    /\ LET loop == InitLoop(cfg, 1, <<>>)
           sorted == SortEngines(loop.made)
           sv == get_elements(cfg.statevector)
           exc == IF loop.exc.type = "none" /\ loop.made = <<>>
                  THEN [NoExc EXCEPT !.type = "ValueError",
                                     !.msg = "need at least one array to concatenate"]
                  ELSE loop.exc
       IN  /\ config' = cfg
           /\ instantiated' = loop.made
           /\ init_exc' = exc
           /\ IF exc.type # "none"
              THEN /\ phase' = "failed"
                   /\ UNCHANGED <<rt_engines, wl, solar_irr, statevec_names,
                                  bvec, bounds, scale, init, prior_mean,
                                  prior_sigma, topography_model, glint_model,
                                  L_coupled>>
              ELSE /\ phase' = "ok"
                   /\ topography_model' =
                        (\E i \in 1..Len(loop.made) : loop.made[i].topography_model)
                   /\ glint_model' =
                        (\E i \in 1..Len(loop.made) : loop.made[i].glint_model)
                   /\ statevec_names' = cfg.statevector
                   /\ rt_engines' = sorted
                   /\ bounds' = Tup([i \in 1..Len(sv) |-> sv[i].bounds])
                   /\ scale' = Tup([i \in 1..Len(sv) |-> sv[i].scale])
                   /\ init' = Tup([i \in 1..Len(sv) |-> sv[i].init])
                   /\ prior_mean' = Tup([i \in 1..Len(sv) |-> sv[i].prior_mean])
                   /\ prior_sigma' = Tup([i \in 1..Len(sv) |-> sv[i].prior_sigma])
                   /\ bvec' = cfg.unknowns
                   /\ wl' = Flatten([i \in 1..Len(sorted) |-> sorted[i].wl])
                   /\ solar_irr' =
                        Flatten([i \in 1..Len(sorted) |-> sorted[i].solar_irr])
                   /\ L_coupled' = <<>>
    /\ UNCHANGED <<call, prev, ncalls, pc, loc, ga>>

-----------------------------------------------------------------------------
(* The forward model.  Operators take the compositor's fields explicitly   *)
(* (engines, irr, buf = self.rt_engines, self.solar_irr, self.L_coupled)   *)
(* and return the exception raised ("none" when the call returns), the     *)
(* value returned and the retained buffer as the call leaves it.           *)

None == [isnone |-> TRUE, v |-> NaN]
Some(x) == [isnone |-> FALSE, v |-> x]

\* the coszen property: the cached value of the first engine exposing one,
\* None when the loop falls through
coszen_of(engines) ==
    IF \E i \in 1..Len(engines) : engines[i].has_coszen
    THEN LET i == CHOOSE i \in 1..Len(engines) :
                    /\ engines[i].has_coszen
                    /\ \A j \in 1..(i - 1) : ~engines[j].has_coszen
         IN  Some(engines[i].coszen)
    ELSE None

\* np.cos(np.deg2rad(z)) on the zenith angles of the model
CosDeg(z) == CASE z = 0 -> <<1, 1>>
               [] z = 60 -> <<1, 2>>

\* variant: the keys of the first engine instead of the common keys
pack_arrays_first(rets) ==
    Tab([k \in DOMAIN rets[1] |->
            [isarr |-> TRUE,
             v |-> hstack([i \in 1..Len(rets) |->
                              IF k \in DOMAIN rets[i] THEN rets[i][k].v
                              ELSE <<>>])]])

pack_arrays(rets) ==
    LET shared_rtm_keys ==
            {k \in DOMAIN rets[1] : \A i \in 2..Len(rets) : k \in DOMAIN rets[i]}
    IN  Tab([k \in shared_rtm_keys |->
            [isarr |-> TRUE,
             v |-> hstack([i \in 1..Len(rets) |-> rets[i][k].v])]])

get_shared_rtm_quantities(engines, x_RT, geom) ==
    pack_arrays(Tup([i \in 1..Len(engines) |-> RTget(engines[i], x_RT, geom)]))

\* self.rho_to_rdn(rho) as get_L_atm and get_L_down_transmitted call it, in
\* the exact arithmetic of the forward model: (self.solar_irr * self.coszen)
\* / np.pi * rho
rho_to_rdn_exact(engines, irr, rho) ==
    LET cz == coszen_of(engines)
    IN  IF cz.isnone THEN [exc |-> "TypeError", v |-> Raised]
        ELSE LET rdn == VMul(VOver(VScale(irr, cz.v), Pi), rho)
             IN  IF rdn = Raised THEN [exc |-> "ValueError", v |-> Raised]
                 ELSE [exc |-> "none", v |-> rdn]

\* one pass of the loop of get_L_atm
L_atm_of(engines, irr, RT, x_RT, geom) ==
    LET from(r) ==
            IF RT.treat_as_emissive
            THEN IF "thermal_upwelling" \in DOMAIN r
                 THEN [exc |-> "none", v |-> r["thermal_upwelling"].v]
                 ELSE [exc |-> "KeyError", v |-> Raised]
            ELSE IF "rhoatm" \notin DOMAIN r THEN [exc |-> "KeyError", v |-> Raised]
            ELSE IF RT.rt_mode = "rdn" THEN [exc |-> "none", v |-> r["rhoatm"].v]
            ELSE rho_to_rdn_exact(engines, irr, r["rhoatm"].v)
    IN  from(RTget(RT, x_RT, geom))

RECURSIVE FirstExc(_)
FirstExc(rs) ==
    IF rs = <<>> THEN "none"
    ELSE IF Head(rs).exc # "none" THEN Head(rs).exc
    ELSE FirstExc(Tail(rs))

\* np.hstack of an empty list (no engines) raises ValueError
get_L_atm(engines, irr, x_RT, geom) ==
    LET stacked(L_atms, e) ==
            IF e # "none" THEN [exc |-> e, v |-> Raised]
            ELSE IF L_atms = <<>> THEN [exc |-> "ValueError", v |-> Raised]
            ELSE [exc |-> "none",
                  v |-> hstack([i \in 1..Len(L_atms) |-> L_atms[i].v])]
        from(L_atms) == stacked(L_atms, FirstExc(L_atms))
    IN  from(Tup([i \in 1..Len(engines) |->
                     L_atm_of(engines, irr, engines[i], x_RT, geom)]))

\* the else-branch loop of get_L_coupled: append one term per declared key,
\* stopping at the first append whose arithmetic raises
RECURSIVE AppendTerms(_, _, _, _, _, _)
AppendTerms(buf, engines, irr, r, coszen, i) ==
    IF i > Len(engines[1].coupling_terms) THEN [exc |-> "none", buf |-> buf]
    ELSE LET key == engines[1].coupling_terms[i]
             term == IF engines[1].rt_mode = "transm"
                     THEN VMul(VOver(VScale(irr, coszen), Pi), r[key].v)
                     ELSE r[key].v
         IN  IF term = Raised THEN [exc |-> "ValueError", buf |-> buf]
             ELSE AppendTerms(Append(buf, term), engines, irr, r, coszen, i + 1)

\* the rescaling loop: self.L_coupled[ind] = self.L_coupled[ind] / coszen * cos_i
Rescale(buf, coszen, cos_i) ==
    Tup([k \in 1..Len(buf) |->
        IF k = 1 \/ k = 3 THEN VScale(VOver(buf[k], coszen), cos_i) ELSE buf[k]])

Zero == << <<0, 1>> >>

get_L_coupled(buf, engines, irr, r, coszen, cos_i) ==
    LET terms == engines[1].coupling_terms IN
    IF \E i \in 1..Len(terms) : terms[i] \notin DOMAIN r
    THEN [exc |-> "KeyError", buf |-> buf, ret |-> <<>>]
    ELSE IF \E i \in 1..Len(terms) : ~r[terms[i]].isarr
    THEN IF "transm_down_dir" \notin DOMAIN r \/ "transm_down_dif" \notin DOMAIN r
         THEN [exc |-> "KeyError", buf |-> buf, ret |-> <<>>]
         ELSE LET sum == VAdd(r["transm_down_dir"].v, r["transm_down_dif"].v)
              IN  IF sum = Raised
                  THEN [exc |-> "ValueError", buf |-> buf, ret |-> <<>>]
                  ELSE LET b == Rescale(<<r["transm_down_dir"].v, sum, Zero, Zero>>,
                                        coszen, cos_i)
                       IN  [exc |-> "none", buf |-> b, ret |-> SubSeq(b, 1, 4)]
    ELSE LET app == AppendTerms(buf, engines, irr, r, coszen, 1) IN
         IF app.exc # "none"
         THEN [exc |-> app.exc, buf |-> app.buf, ret |-> <<>>]
         ELSE LET b == Rescale(app.buf, coszen, cos_i)
              IN  [exc |-> "none", buf |-> b, ret |-> SubSeq(b, 1, 4)]

NoTrace == [coszen |-> NaN, cos_i |-> NaN, L_atm |-> <<>>, s_alb |-> <<>>,
            Lc |-> <<>>, L_up |-> <<>>, bg_dir |-> <<>>, bg_dif |-> <<>>,
            tu_dir |-> <<>>, tu_dif |-> <<>>]

Failed(e, buf) == [exc |-> e, ret |-> Raised, buf |-> buf, tr |-> NoTrace]

\* variant: the spherical-albedo denominator divides the path radiance too
Radiance_divall(L_atm, Lc, rfl_dir, rfl_dif, bg_dir, bg_dif, s_alb, L_up) ==
    VAdd(VDiv(VAdd(L_atm,
                   VAdd(VAdd(VAdd(VMul(Lc[1], rfl_dir), VMul(Lc[2], rfl_dif)),
                             VMul(Lc[3], bg_dir)),
                        VMul(Lc[4], bg_dif))),
              VSub(<< <<1, 1>> >>, VMul(s_alb, bg_dif))),
         L_up)

\* the at-sensor radiance expression of calc_rdn
Radiance(L_atm, Lc, rfl_dir, rfl_dif, bg_dir, bg_dif, s_alb, L_up) ==
    VAdd(VAdd(L_atm,
              VDiv(VAdd(VAdd(VAdd(VMul(Lc[1], rfl_dir), VMul(Lc[2], rfl_dif)),
                             VMul(Lc[3], bg_dir)),
                        VMul(Lc[4], bg_dif)),
                   VSub(<< <<1, 1>> >>, VMul(s_alb, bg_dif)))),
         L_up)

\* the steps of calc_rdn in the order of the code, each handing the values it
\* has computed to the next
calc_rdn(buf, engines, irr, x_RT, rfl_dir, rfl_dif, Ls, geom) ==
    LET result(coszen, cos_i, r, L_atm, glc, L_up, bg_dir, bg_dif, ret) ==
            IF ret = Raised THEN Failed("ValueError", glc.buf)
            ELSE [exc |-> "none", ret |-> ret, buf |-> glc.buf,
                  tr |-> [coszen |-> coszen, cos_i |-> cos_i, L_atm |-> L_atm.v,
                          s_alb |-> r["sphalb"].v, Lc |-> glc.ret, L_up |-> L_up,
                          bg_dir |-> bg_dir, bg_dif |-> bg_dif,
                          tu_dir |-> r["transm_up_dir"].v,
                          tu_dif |-> r["transm_up_dif"].v]]
        radiance(coszen, cos_i, r, L_atm, glc, L_up, bg_dir, bg_dif) ==
            result(coszen, cos_i, r, L_atm, glc, L_up, bg_dir, bg_dif,
                   Radiance(L_atm.v, glc.ret, rfl_dir, rfl_dif, bg_dir, bg_dif,
                            r["sphalb"].v, L_up))
        coupled(coszen, cos_i, r, L_atm, glc) ==
            IF glc.exc # "none" THEN Failed(glc.exc, glc.buf)
            ELSE IF "transm_up_dir" \notin DOMAIN r \/ "transm_up_dif" \notin DOMAIN r
            THEN Failed("KeyError", glc.buf)
            ELSE radiance(coszen, cos_i, r, L_atm, glc,
                          VMul(Ls, VAdd(r["transm_up_dir"].v, r["transm_up_dif"].v)),
                          IF geom.bg_rfl.isnone THEN rfl_dir ELSE <<geom.bg_rfl.v>>,
                          IF geom.bg_rfl.isnone THEN rfl_dif ELSE <<geom.bg_rfl.v>>)
        looked_up(coszen, cos_i, r, L_atm) ==
            IF L_atm.exc # "none" THEN Failed(L_atm.exc, buf)
            ELSE IF "sphalb" \notin DOMAIN r THEN Failed("KeyError", buf)
            ELSE coupled(coszen, cos_i, r, L_atm,
                         get_L_coupled(buf, engines, irr, r, coszen, cos_i))
        with_coszen(coszen) ==
            looked_up(coszen, IF geom.cos_i.isnone THEN coszen ELSE geom.cos_i.v,
                      get_shared_rtm_quantities(engines, x_RT, geom),
                      get_L_atm(engines, irr, x_RT, geom))
        with_property(cz) ==
            IF cz.isnone THEN Failed("TypeError", buf)
            ELSE with_coszen(IF IsNaN(cz.v) THEN CosDeg(geom.solar_zenith) ELSE cz.v)
    IN  with_property(coszen_of(engines))

-----------------------------------------------------------------------------
(* The Jacobian engine                                                     *)

\* row i of x_RT + np.eye(len(x_RT)) * eps
Perturbed(x_RT, i) ==
    Tup([k \in 1..Len(x_RT) |-> IF k = i THEN RAdd(x_RT[k], Eps) ELSE x_RT[k]])

\* the finite-difference loop of drdn_dRT: one calc_rdn per state element,
\* each starting from the buffer the call before it left.  x_RT is the
\* caller's array, which the loop only reads (row i of the fresh matrix
\* x_RT + np.eye(len(x_RT)) * eps is what calc_rdn receives); it is handed
\* on as the loop leaves it
RECURSIVE KRTLoop(_, _, _, _, _, _, _, _, _, _, _)

\* K_RT.append((rdne - rdn) / eps), then the next element
KRTStep(res, engines, irr, x_RT, rfl_dir, rfl_dif, Ls, geom, rdn, i, K_RT) ==
    IF res.exc # "none"
    THEN [exc |-> res.exc, buf |-> res.buf, K_RT |-> K_RT, x_RT |-> x_RT]
    ELSE KRTLoop(res.buf, engines, irr, x_RT, rfl_dir, rfl_dif, Ls, geom, rdn,
                 i + 1, Append(K_RT, VOver(VSub(res.ret, rdn), Eps)))

KRTLoop(buf, engines, irr, x_RT, rfl_dir, rfl_dif, Ls, geom, rdn, i, K_RT) ==
    IF i > Len(x_RT) THEN [exc |-> "none", buf |-> buf, K_RT |-> K_RT, x_RT |-> x_RT]
    ELSE KRTStep(calc_rdn(buf, engines, irr, Perturbed(x_RT, i),
                          rfl_dir, rfl_dif, Ls, geom),
                 engines, irr, x_RT, rfl_dir, rfl_dif, Ls, geom, rdn, i, K_RT)

\* one pass of the loop of get_L_down_transmitted, in the order of the code:
\* r["transm_down_dir"] is read and converted before r["transm_down_dif"] is
\* read, so a failing conversion of the first precedes a missing second key
L_down_of(engines, irr, RT, x_RT, geom) ==
    LET no == [exc |-> "KeyError", emissive |-> RT.treat_as_emissive,
               tot |-> Raised, dir |-> Raised, dif |-> Raised]
        summed(dir, dif) ==
            IF dif.exc # "none" THEN [no EXCEPT !.exc = dif.exc]
            ELSE [exc |-> "none", emissive |-> FALSE,
                  tot |-> VAdd(dir.v, dif.v), dir |-> dir.v, dif |-> dif.v]
        from(r) ==
            LET L_down(key) ==
                    IF RT.rt_mode = "rdn" THEN [exc |-> "none", v |-> r[key].v]
                    ELSE rho_to_rdn_exact(engines, irr, r[key].v)
                solar(dir) ==
                    IF dir.exc # "none" THEN [no EXCEPT !.exc = dir.exc]
                    ELSE IF "transm_down_dif" \notin DOMAIN r THEN no
                    ELSE summed(dir, L_down("transm_down_dif"))
            IN  IF RT.treat_as_emissive
                THEN IF "thermal_downwelling" \notin DOMAIN r THEN no
                     ELSE [exc |-> "none", emissive |-> TRUE,
                           tot |-> r["thermal_downwelling"].v, dir |-> Raised,
                           dif |-> Raised]
                ELSE IF "transm_down_dir" \notin DOMAIN r THEN no
                ELSE solar(L_down("transm_down_dir"))
    IN  from(RTget(RT, x_RT, geom))

\* entries of a list selected by a predicate on their index
RECURSIVE Pick(_, _, _)
Pick(xs, keep, i) ==
    IF i > Len(xs) THEN <<>>
    ELSE IF keep[i] THEN <<xs[i]>> \o Pick(xs, keep, i + 1)
    ELSE Pick(xs, keep, i + 1)

get_L_down_transmitted(engines, irr, x_RT, geom) ==
    LET stacked(e, tot, dirs, difs) ==
            IF e # "none" THEN [exc |-> e, tot |-> Raised, dir |-> Raised, dif |-> Raised]
            ELSE IF tot = Raised \/ dirs = <<>> \/ hstack(dirs) = Raised
            THEN [exc |-> "ValueError", tot |-> Raised, dir |-> Raised, dif |-> Raised]
            ELSE [exc |-> "none", tot |-> tot, dir |-> hstack(dirs),
                  dif |-> hstack(difs)]
        picked(downs, solar) ==
            stacked(FirstExc(downs),
                    hstack(Tup([i \in 1..Len(downs) |-> downs[i].tot])),
                    Pick(Tup([i \in 1..Len(downs) |-> downs[i].dir]), solar, 1),
                    Pick(Tup([i \in 1..Len(downs) |-> downs[i].dif]), solar, 1))
        from(downs) == picked(downs, Tup([i \in 1..Len(downs) |-> ~downs[i].emissive]))
    IN  from(Tup([i \in 1..Len(engines) |->
                     L_down_of(engines, irr, engines[i], x_RT, geom)]))

\* fresnel reflectance factor used by the glint term
rho_ls == <<1, 50>>

NoSurf == [exc |-> "none", K_surface |-> <<>>, drdn_drfl |-> <<>>,
           drdn_dLs |-> <<>>, L_down_dir |-> <<>>, L_down_dif |-> <<>>,
           bg |-> <<>>, cos_i |-> NaN]

\* the glint term: rho_ls * (L_sky / L_down_tot), or zeros
glint_of(glint, x_surface, L_down_tot, L_down_dir, L_down_dif, zeros) ==
    IF glint
    THEN VScale(VDiv(VAdd(VScale(L_down_dir, x_surface[Len(x_surface) - 1]),
                          VScale(L_down_dif, x_surface[Len(x_surface)])),
                     L_down_tot),
                rho_ls)
    ELSE zeros

\* adjacency effects: the background reflectance
bg_of(geom, rfl_dir, glintv) ==
    IF geom.bg_rfl.isnone THEN VAdd(rfl_dir, glintv) ELSE <<geom.bg_rfl.v>>

\* variant: the two glint derivatives stored in each other's column
SetGlintColumns_swapped(K0, drdn_dgdd, drdn_dgdsf) ==
    Tup([c \in 1..Len(K0) |->
            IF c = Len(K0) - 1 THEN drdn_dgdsf
            ELSE IF c = Len(K0) THEN drdn_dgdd
            ELSE K0[c]])

\* K_surface[:, -2] = drdn_dgdd; K_surface[:, -1] = drdn_dgdsf
SetGlintColumns(K0, drdn_dgdd, drdn_dgdsf) ==
    Tup([c \in 1..Len(K0) |->
            IF c = Len(K0) - 1 THEN drdn_dgdd
            ELSE IF c = Len(K0) THEN drdn_dgdsf
            ELSE K0[c]])

\* the columns of K_surface and the glint overwrite
K_columns(glint, K0, drdn_drfl, drdn_dLs, drdn_dgdd, drdn_dgdsf, L_down_dir, L_down_dif, bg, cos_i) ==
    IF (\E c \in 1..Len(K0) : K0[c] = Raised) \/ (glint /\ (drdn_dgdd = Raised \/ drdn_dgdsf = Raised))
    THEN [NoSurf EXCEPT !.exc = "ValueError"]
    ELSE [exc |-> "none",
          K_surface |-> IF glint THEN SetGlintColumns(K0, drdn_dgdd, drdn_dgdsf)
                        ELSE K0,
          drdn_drfl |-> drdn_drfl, drdn_dLs |-> drdn_dLs,
          L_down_dir |-> L_down_dir, L_down_dif |-> L_down_dif,
          bg |-> bg, cos_i |-> cos_i]

\* the derivatives with respect to reflectance, emission and the glint terms
K_terms(glint, drdn_drfl, drdn_dLs, den, drfl_dsurface, dLs_dsurface, L_down_dir, L_down_dif, bg, cos_i) ==
    K_columns(glint,
              Tup([c \in 1..Len(drfl_dsurface) |->
                      VAdd(VMul(drdn_drfl, drfl_dsurface[c]),
                           VMul(drdn_dLs, dLs_dsurface[c]))]),
              drdn_drfl, drdn_dLs,
              VDiv(VMul(L_down_dir, drdn_dLs), den),
              VDiv(VMul(L_down_dif, drdn_dLs), den),
              L_down_dir, L_down_dif, bg, cos_i)

\* from the background reflectance to the derivatives
K_from_bg(glint, r, glintv, bg, drfl_dsurface, dLs_dsurface, L_down_dir, L_down_dif, cos_i) ==
    IF glintv = Raised \/ bg = Raised THEN [NoSurf EXCEPT !.exc = "ValueError"]
    ELSE IF "transm_up_dir" \notin DOMAIN r \/ "transm_up_dif" \notin DOMAIN r
    THEN [NoSurf EXCEPT !.exc = "KeyError"]
    ELSE K_terms(glint,
                 VMul(VDiv(VAdd(L_down_dir, L_down_dif),
                           VSub(<< <<1, 1>> >>, VMul(r["sphalb"].v, bg))),
                      r["transm_up_dir"].v),
                 VAdd(r["transm_up_dir"].v, r["transm_up_dif"].v),
                 VSub(<< <<1, 1>> >>, VMul(r["sphalb"].v, bg)),
                 drfl_dsurface, dLs_dsurface, L_down_dir, L_down_dif, bg, cos_i)

\* from the downward radiances to the background reflectance
K_from_down(glint, r, geom, x_surface, rfl_dir, glintv, drfl_dsurface, dLs_dsurface, L_down_dir, L_down_dif, cos_i) ==
    K_from_bg(glint, r, glintv, bg_of(geom, rfl_dir, glintv),
              drfl_dsurface, dLs_dsurface, L_down_dir, L_down_dif, cos_i)

\* L_down_dir = L_down_dir / self.coszen * cos_i, then the glint term
K_rescaled(glint, r, geom, x_surface, rfl_dir, drfl_dsurface, dLs_dsurface, L_down_tot, L_down_dir, L_down_dif, cos_i) ==
    K_from_down(glint, r, geom, x_surface, rfl_dir,
                glint_of(glint, x_surface, L_down_tot, L_down_dir, L_down_dif,
                         Const(Len(rfl_dir), <<0, 1>>)),
                drfl_dsurface, dLs_dsurface, L_down_dir, L_down_dif, cos_i)

\* the quantities looked up for K_surface, in the order the code reads them
K_lookup(cz, r, down, glint, geom, x_surface, rfl_dir, drfl_dsurface, dLs_dsurface) ==
    IF "sphalb" \notin DOMAIN r THEN [NoSurf EXCEPT !.exc = "KeyError"]
    ELSE IF down.exc # "none" THEN [NoSurf EXCEPT !.exc = down.exc]
    ELSE IF cz.isnone THEN [NoSurf EXCEPT !.exc = "TypeError"]
    ELSE K_rescaled(glint, r, geom, x_surface, rfl_dir, drfl_dsurface,
                    dLs_dsurface, down.tot,
                    VScale(VOver(down.dir, cz.v),
                           IF geom.cos_i.isnone THEN cz.v ELSE geom.cos_i.v),
                    down.dif,
                    IF geom.cos_i.isnone THEN cz.v ELSE geom.cos_i.v)

\* the analytic part of drdn_dRT ("Get K_surface" onwards)
K_surface_of(engines, irr, glint, x_RT, x_surface, rfl_dir, drfl_dsurface, dLs_dsurface, geom) ==
    K_lookup(coszen_of(engines),
             get_shared_rtm_quantities(engines, x_RT, geom),
             get_L_down_transmitted(engines, irr, x_RT, geom),
             glint, geom, x_surface, rfl_dir, drfl_dsurface, dLs_dsurface)

\* the two results of drdn_dRT, or the exception that ended it, with the
\* retained buffer and the caller's x_RT array as the call leaves them
drdn_dRT_result(base, x_RT, loop, surf) ==
    IF base.exc # "none"
    THEN [exc |-> base.exc, buf |-> base.buf, K_RT |-> <<>>,
          rdn |-> base.ret, surf |-> NoSurf, x_RT |-> x_RT]
    ELSE IF loop.exc # "none"
    THEN [exc |-> loop.exc, buf |-> loop.buf, K_RT |-> <<>>,
          rdn |-> base.ret, surf |-> NoSurf, x_RT |-> loop.x_RT]
    ELSE [exc |-> surf.exc, buf |-> loop.buf, K_RT |-> loop.K_RT,
          rdn |-> base.ret, surf |-> surf, x_RT |-> loop.x_RT]

\* the finite-difference loop starting from the radiance at x_RT, then the
\* surface Jacobian at the x_RT array the loop has left
drdn_dRT_from(base, engines, irr, glint, x_RT, x_surface, rfl_dir, rfl_dif, drfl_dsurface, Ls, dLs_dsurface, geom) ==
    LET after(loop) ==
            drdn_dRT_result(base, x_RT, loop,
                            K_surface_of(engines, irr, glint, loop.x_RT, x_surface,
                                         rfl_dir, drfl_dsurface, dLs_dsurface, geom))
    IN  after(KRTLoop(base.buf, engines, irr, x_RT, rfl_dir, rfl_dif, Ls,
                      geom, base.ret, 1, <<>>))

drdn_dRT(buf, engines, irr, glint, x_RT, x_surface, rfl_dir, rfl_dif, drfl_dsurface, Ls, dLs_dsurface, geom) ==
    drdn_dRT_from(calc_rdn(buf, engines, irr, x_RT, rfl_dir, rfl_dif, Ls, geom),
                  engines, irr, glint, x_RT, x_surface, rfl_dir, rfl_dif,
                  drfl_dsurface, Ls, dLs_dsurface, geom)

\* self.statevec_names.index(name)
IndexOf(names, name) == CHOOSE i \in 1..Len(names) : names[i] = name

\* variant: no copy, x_RT_perturb is the caller's array itself
PerturbedRel_alias(x_RT, i) ==
    [x_RT |-> Tup([k \in 1..Len(x_RT) |->
                      IF k = i THEN RMul(x_RT[k], RAdd(<<1, 1>>, Eps)) ELSE x_RT[k]]),
     x_RT_perturb |-> Tup([k \in 1..Len(x_RT) |->
                      IF k = i THEN RMul(x_RT[k], RAdd(<<1, 1>>, Eps)) ELSE x_RT[k]])]

\* x_RT_perturb = x_RT.copy(); x_RT_perturb[i] = x_RT[i] * perturb, with
\* perturb = 1.0 + eps: the two arrays after the assignment, the caller's
\* x_RT and the copy that received the write
PerturbedRel(x_RT, i) ==
    [x_RT |-> x_RT,
     x_RT_perturb |-> Tup([k \in 1..Len(x_RT) |->
                      IF k = i THEN RMul(x_RT[k], RAdd(<<1, 1>>, Eps)) ELSE x_RT[k]])]

NoKb == [exc |-> "none", buf |-> <<>>, shape |-> <<>>, rows |-> <<>>, x_RT |-> <<>>]

\* the loop over self.bvec: only H2O_ABSCO with H2OSTR in the state vector
\* appends a row.  x_RT is the caller's array as the passes so far have left
\* it; each pass reads it, and the next pass continues from it
RECURSIVE KbLoop(_, _, _, _, _, _, _, _, _, _, _, _, _)

\* Kb_RT.append((rdne - rdn) / eps), then the next unknown
KbStep(res, engines, irr, names, unknowns, x_RT, rfl_dir, rfl_dif, Ls, geom, rdn, k, Kb) ==
    IF res.exc # "none"
    THEN [exc |-> res.exc, buf |-> res.buf, Kb |-> Kb, x_RT |-> x_RT]
    ELSE KbLoop(res.buf, engines, irr, names, unknowns, x_RT, rfl_dir, rfl_dif, Ls,
                geom, rdn, k + 1, Append(Kb, VOver(VSub(res.ret, rdn), Eps)))

KbLoop(buf, engines, irr, names, unknowns, x_RT, rfl_dir, rfl_dif, Ls, geom, rdn, k, Kb) ==
    LET perturbed(arrays) ==
            KbStep(calc_rdn(buf, engines, irr, arrays.x_RT_perturb,
                            rfl_dir, rfl_dif, Ls, geom),
                   engines, irr, names, unknowns, arrays.x_RT, rfl_dir, rfl_dif,
                   Ls, geom, rdn, k, Kb)
    IN  IF k > Len(unknowns)
        THEN [exc |-> "none", buf |-> buf, Kb |-> Kb, x_RT |-> x_RT]
        ELSE IF unknowns[k] = "H2O_ABSCO"
                /\ \E i \in 1..Len(names) : names[i] = "H2OSTR"
        THEN perturbed(PerturbedRel(x_RT, IndexOf(names, "H2OSTR")))
        ELSE KbLoop(buf, engines, irr, names, unknowns, x_RT, rfl_dir, rfl_dif, Ls,
                    geom, rdn, k + 1, Kb)

\* Kb_RT = np.array(Kb_RT).T: an empty list becomes an array of shape (0,)
Kb_result(loop, nwl) ==
    IF loop.exc # "none"
    THEN [NoKb EXCEPT !.exc = loop.exc, !.buf = loop.buf, !.x_RT = loop.x_RT]
    ELSE [exc |-> "none", buf |-> loop.buf,
          shape |-> IF loop.Kb = <<>> THEN <<0>> ELSE <<nwl, Len(loop.Kb)>>,
          rows |-> loop.Kb, x_RT |-> loop.x_RT]

\* the finite-difference branch, starting from the radiance at x_RT
drdn_dRTb_from(base, engines, irr, nwl, names, unknowns, x_RT, rfl_dir, rfl_dif, Ls, geom) ==
    IF base.exc # "none"
    THEN [NoKb EXCEPT !.exc = base.exc, !.buf = base.buf, !.x_RT = x_RT]
    ELSE Kb_result(KbLoop(base.buf, engines, irr, names, unknowns, x_RT, rfl_dir,
                          rfl_dif, Ls, geom, base.ret, 1, <<>>),
                   nwl)

\* drdn_dRTb: the matrix is returned transposed, one column per appended
\* row; rows holds the rows before the transposition, x_RT the caller's
\* array as the call leaves it
drdn_dRTb(buf, engines, irr, nwl, names, unknowns, x_RT, rfl_dir, rfl_dif, Ls, geom) ==
    IF Len(unknowns) = 0
    THEN [exc |-> "none", buf |-> buf, shape |-> <<1, 0>>, rows |-> <<>>,
          x_RT |-> x_RT]
    ELSE IF ~\E i \in 1..Len(names) : names[i] = "H2OSTR"
    THEN [exc |-> "none", buf |-> buf, shape |-> <<nwl, 1>>,
          rows |-> <<Const(nwl, <<0, 1>>)>>, x_RT |-> x_RT]
    ELSE drdn_dRTb_from(calc_rdn(buf, engines, irr, x_RT, rfl_dir, rfl_dif, Ls, geom),
                        engines, irr, nwl, names, unknowns, x_RT, rfl_dir, rfl_dif,
                        Ls, geom)

-----------------------------------------------------------------------------
(* Inputs of the calls                                                     *)

Geoms ==
    { [solar_zenith |-> 60, cos_i |-> c, bg_rfl |-> b] :
        c \in {None, Some(<<1, 2>>)}, b \in {None, Some(<<1, 2>>)} }

XRTs(n) == [1..n -> { <<0, 1>>, <<1, 1>> }]

\* per-pixel surface inputs, constant over the wavelengths
Pixels == { [rfl_dir |-> <<1, 2>>, rfl_dif |-> <<1, 4>>, Ls |-> <<1, 1>>] }

\* arguments of the direct get_L_coupled calls: merged quantities as
\* get_shared_rtm_quantities returns them, or the same mapping with the
\* declared coupling terms left as scalar placeholders
Unset(r) ==
    Tab([k \in DOMAIN r |->
            IF IsCoupling(k) THEN [isarr |-> FALSE, v |-> << <<0, 1>> >>]
            ELSE r[k]])

NoCall == [op |-> "none", args |-> <<>>, exc |-> "none", ret |-> <<>>,
           tr |-> NoTrace, before |-> <<>>]

-----------------------------------------------------------------------------
(* Sequential calls on the constructed compositor                          *)

Frame == <<phase, config, instantiated, rt_engines, wl, solar_irr,
           statevec_names, bvec, bounds, scale, init, prior_mean, prior_sigma,
           topography_model, glint_model, init_exc>>

CalcRdn ==
    /\ phase = "ok"
    /\ ncalls < MaxCalls
    /\ \E x_RT \in XRTs(Len(config.statevector)), px \in Pixels, geom \in Geoms :
          \E res \in { calc_rdn(L_coupled, rt_engines, solar_irr, x_RT,
                                Const(Len(wl), px.rfl_dir),
                                Const(Len(wl), px.rfl_dif),
                                Const(Len(wl), px.Ls), geom) } :
              /\ L_coupled' = res.buf
              /\ call' = [op |-> "calc_rdn",
                          args |-> [x_RT |-> x_RT, px |-> px, geom |-> geom],
                          exc |-> res.exc, ret |-> res.ret,
                          tr |-> res.tr, before |-> L_coupled]
    /\ prev' = call
    /\ ncalls' = ncalls + 1
    /\ UNCHANGED <<Frame, pc, loc, ga>>

\* the r argument of a direct get_L_coupled call
CouplingR(a) ==
    LET r == get_shared_rtm_quantities(
                 rt_engines, Const(Len(config.statevector), <<1, 1>>),
                 [solar_zenith |-> 60, cos_i |-> None, bg_rfl |-> None])
    IN  IF a.unset THEN Unset(r) ELSE r

GetLCoupled ==
    /\ phase = "ok"
    /\ ncalls < MaxCalls
    /\ \E a \in { [unset |-> u, coszen |-> <<1, 1>>, cos_i |-> c] :
                    u \in BOOLEAN, c \in { <<1, 1>>, <<1, 2>> } } :
          \E res \in { get_L_coupled(L_coupled, rt_engines, solar_irr,
                                     CouplingR(a), a.coszen, a.cos_i) } :
              /\ L_coupled' = res.buf
              /\ call' = [op |-> "get_L_coupled", args |-> a,
                          exc |-> res.exc, ret |-> res.ret,
                          tr |-> NoTrace, before |-> L_coupled]
    /\ prev' = call
    /\ ncalls' = ncalls + 1
    /\ UNCHANGED <<Frame, pc, loc, ga>>

\* surface-side inputs of drdn_dRT: three surface state elements
drfl_dsurface_in(n) == <<Const(n, <<1, 1>>), Const(n, <<0, 1>>), Const(n, <<1, 2>>)>>
dLs_dsurface_in(n) == <<Const(n, <<0, 1>>), Const(n, <<1, 1>>), Const(n, <<0, 1>>)>>

DrdnDRT ==
    /\ phase = "ok"
    /\ ncalls < MaxCalls
    /\ \E x_RT \in XRTs(Len(config.statevector)), px \in Pixels, geom \in Geoms :
          \E res \in { drdn_dRT(L_coupled, rt_engines, solar_irr, glint_model,
                                x_RT, << <<1, 2>>, <<1, 1>>, <<1, 2>> >>,
                                Const(Len(wl), px.rfl_dir),
                                Const(Len(wl), px.rfl_dif),
                                drfl_dsurface_in(Len(wl)),
                                Const(Len(wl), px.Ls),
                                dLs_dsurface_in(Len(wl)), geom) } :
              /\ L_coupled' = res.buf
              /\ call' = [op |-> "drdn_dRT",
                          args |-> [x_RT |-> x_RT, px |-> px, geom |-> geom],
                          exc |-> res.exc,
                          ret |-> <<res.K_RT, res.surf.K_surface>>,
                          tr |-> [rdn |-> res.rdn, surf |-> res.surf,
                                  x_RT |-> res.x_RT],
                          before |-> L_coupled]
    /\ prev' = call
    /\ ncalls' = ncalls + 1
    /\ UNCHANGED <<Frame, pc, loc, ga>>

GetSharedRtmQuantities ==
    /\ phase = "ok"
    /\ ncalls < MaxCalls
    /\ \E x_RT \in XRTs(Len(config.statevector)), geom \in Geoms :
          /\ call' = [op |-> "get_shared_rtm_quantities",
                      args |-> [x_RT |-> x_RT, geom |-> geom],
                      exc |-> "none",
                      ret |-> get_shared_rtm_quantities(rt_engines, x_RT, geom),
                      tr |-> NoTrace, before |-> L_coupled]
    /\ prev' = call
    /\ ncalls' = ncalls + 1
    /\ UNCHANGED <<Frame, L_coupled, pc, loc, ga>>

\* tr.x_RT is the caller's array as the call leaves it
DrdnDRTb ==
    /\ phase = "ok"
    /\ ncalls < MaxCalls
    /\ \E x_RT \in XRTs(Len(config.statevector)), px \in Pixels, geom \in Geoms :
          \E res \in { drdn_dRTb(L_coupled, rt_engines, solar_irr, Len(wl),
                                 statevec_names, bvec, x_RT,
                                 Const(Len(wl), px.rfl_dir),
                                 Const(Len(wl), px.rfl_dif),
                                 Const(Len(wl), px.Ls), geom) } :
              /\ L_coupled' = res.buf
              /\ call' = [op |-> "drdn_dRTb",
                          args |-> [x_RT |-> x_RT, px |-> px, geom |-> geom],
                          exc |-> res.exc,
                          ret |-> [shape |-> res.shape, rows |-> res.rows],
                          tr |-> [x_RT |-> res.x_RT], before |-> L_coupled]
    /\ prev' = call
    /\ ncalls' = ncalls + 1
    /\ UNCHANGED <<Frame, pc, loc, ga>>

Construct ==
    /\ phase = "new"
    /\ \E cfg \in Configs : __init__(cfg)

\* construction from a configuration that declares nuisance parameters
ConstructKb ==
    /\ phase = "new"
    /\ \E cfg \in ConfigsKb : __init__(cfg)

-----------------------------------------------------------------------------
(* Concurrent calc_rdn invocations: each thread runs calc_rdn once; the    *)
(* steps that touch self.L_coupled are separate, everything else a thread  *)
(* computes is local to it.                                                *)

Threads == {1, 2}

\* the pixel each thread evaluates: different state, geometry and background
ThreadArgs(t, n) ==
    IF t = 1
    THEN [x_RT |-> Const(n, <<0, 1>>), px |-> CHOOSE px \in Pixels : TRUE,
          geom |-> [solar_zenith |-> 60, cos_i |-> None, bg_rfl |-> None]]
    ELSE [x_RT |-> Const(n, <<1, 1>>), px |-> CHOOSE px \in Pixels : TRUE,
          geom |-> [solar_zenith |-> 60, cos_i |-> Some(<<1, 2>>),
                    bg_rfl |-> Some(<<1, 2>>)]]

ThreadDone(t, a, e, ret) ==
    /\ pc' = [pc EXCEPT ![t] = "done"]
    /\ loc' = [loc EXCEPT ![t] = [args |-> a, exc |-> e, ret |-> ret]]

\* calc_rdn up to the mode test of get_L_coupled
TStart(t) ==
    /\ phase = "ok"
    /\ pc[t] = "idle"
    /\ \E a \in {ThreadArgs(t, Len(config.statevector))} :
        LET cz == coszen_of(rt_engines)
            coszen == IF IsNaN(cz.v) THEN CosDeg(a.geom.solar_zenith) ELSE cz.v
            cos_i == IF a.geom.cos_i.isnone THEN coszen ELSE a.geom.cos_i.v
            r == get_shared_rtm_quantities(rt_engines, a.x_RT, a.geom)
            L_atm == get_L_atm(rt_engines, solar_irr, a.x_RT, a.geom)
            terms == rt_engines[1].coupling_terms
        IN
        IF cz.isnone THEN ThreadDone(t, a, "TypeError", Raised) /\ UNCHANGED L_coupled
        ELSE IF L_atm.exc # "none"
        THEN ThreadDone(t, a, L_atm.exc, Raised) /\ UNCHANGED L_coupled
        ELSE IF "sphalb" \notin DOMAIN r
                \/ \E i \in 1..Len(terms) : terms[i] \notin DOMAIN r
        THEN ThreadDone(t, a, "KeyError", Raised) /\ UNCHANGED L_coupled
        ELSE IF /\ \E i \in 1..Len(terms) : ~r[terms[i]].isarr
                /\ ("transm_down_dir" \notin DOMAIN r \/ "transm_down_dif" \notin DOMAIN r)
        THEN ThreadDone(t, a, "KeyError", Raised) /\ UNCHANGED L_coupled
        ELSE IF /\ \E i \in 1..Len(terms) : ~r[terms[i]].isarr
                /\ VAdd(r["transm_down_dir"].v, r["transm_down_dif"].v) = Raised
        THEN ThreadDone(t, a, "ValueError", Raised) /\ UNCHANGED L_coupled
        ELSE
        /\ loc' = [loc EXCEPT ![t] =
                     [args |-> a, coszen |-> coszen, cos_i |-> cos_i, r |-> r,
                      L_atm |-> L_atm.v, k |-> 1, tmp |-> <<>>, got |-> <<>>]]
        /\ IF \E i \in 1..Len(terms) : ~r[terms[i]].isarr
           THEN /\ L_coupled' = <<r["transm_down_dir"].v,
                                  VAdd(r["transm_down_dir"].v,
                                       r["transm_down_dif"].v), Zero, Zero>>
                /\ pc' = [pc EXCEPT ![t] = "load"]
           ELSE /\ pc' = [pc EXCEPT ![t] = "append"]
                /\ UNCHANGED L_coupled
    /\ UNCHANGED <<Frame, call, prev, ncalls, ga>>

\* self.L_coupled.append(...) for the k-th declared coupling term
TAppend(t) ==
    /\ pc[t] = "append"
    /\ LET l == loc[t]
           key == rt_engines[1].coupling_terms[l.k]
           term == IF rt_engines[1].rt_mode = "transm"
                   THEN VMul(VOver(VScale(solar_irr, l.coszen), Pi), l.r[key].v)
                   ELSE l.r[key].v
       IN  IF term = Raised
           THEN ThreadDone(t, l.args, "ValueError", Raised) /\ UNCHANGED L_coupled
           ELSE /\ L_coupled' = Append(L_coupled, term)
                /\ IF l.k = Len(rt_engines[1].coupling_terms)
                   THEN /\ pc' = [pc EXCEPT ![t] = "load"]
                        /\ loc' = [loc EXCEPT ![t].k = 1]
                   ELSE /\ loc' = [loc EXCEPT ![t].k = l.k + 1]
                        /\ UNCHANGED pc
    /\ UNCHANGED <<Frame, call, prev, ncalls, ga>>

\* right-hand side of self.L_coupled[ind] = self.L_coupled[ind] / coszen * cos_i
TLoad(t) ==
    /\ pc[t] = "load"
    /\ loc' = [loc EXCEPT ![t].tmp =
                  VScale(VOver(L_coupled[loc[t].k], loc[t].coszen), loc[t].cos_i)]
    /\ pc' = [pc EXCEPT ![t] = "store"]
    /\ UNCHANGED <<Frame, L_coupled, call, prev, ncalls, ga>>

\* the store of that assignment, for ind = 0 and then ind = 2
TStore(t) ==
    /\ pc[t] = "store"
    /\ L_coupled' = [L_coupled EXCEPT ![loc[t].k] = loc[t].tmp]
    /\ IF loc[t].k = 1
       THEN /\ loc' = [loc EXCEPT ![t].k = 3]
            /\ pc' = [pc EXCEPT ![t] = "load"]
       ELSE /\ loc' = [loc EXCEPT ![t].k = 1]
            /\ pc' = [pc EXCEPT ![t] = "read"]
    /\ UNCHANGED <<Frame, call, prev, ncalls, ga>>

\* L_bi_direct = self.L_coupled[0] ... L_bi_hemi = self.L_coupled[3]
TRead(t) ==
    /\ pc[t] = "read"
    /\ loc' = [loc EXCEPT ![t].got = Append(loc[t].got, L_coupled[loc[t].k]),
                          ![t].k = loc[t].k + 1]
    /\ pc' = [pc EXCEPT ![t] = IF loc[t].k = 4 THEN "finish" ELSE "read"]
    /\ UNCHANGED <<Frame, L_coupled, call, prev, ncalls, ga>>

\* the rest of calc_rdn, on the thread's own values
TFinish(t) ==
    /\ pc[t] = "finish"
    /\ LET l == loc[t]
           a == l.args
           n == Len(wl)
           rfl_dir == Const(n, a.px.rfl_dir)
           rfl_dif == Const(n, a.px.rfl_dif)
           L_up == VMul(Const(n, a.px.Ls),
                        VAdd(l.r["transm_up_dir"].v, l.r["transm_up_dif"].v))
           bg_dir == IF a.geom.bg_rfl.isnone THEN rfl_dir ELSE <<a.geom.bg_rfl.v>>
           bg_dif == IF a.geom.bg_rfl.isnone THEN rfl_dif ELSE <<a.geom.bg_rfl.v>>
           ret == Radiance(l.L_atm, l.got, rfl_dir, rfl_dif, bg_dir, bg_dif,
                           l.r["sphalb"].v, L_up)
       IN  IF "transm_up_dir" \notin DOMAIN l.r \/ "transm_up_dif" \notin DOMAIN l.r
           THEN ThreadDone(t, a, "KeyError", Raised)
           ELSE ThreadDone(t, a, IF ret = Raised THEN "ValueError" ELSE "none", ret)
    /\ UNCHANGED <<Frame, L_coupled, call, prev, ncalls, ga>>

-----------------------------------------------------------------------------
(* float64 arithmetic (numpy), for the decisions of the LUT grid code      *)

\* IEEE-754 doubles.  The grid code of apply_oe.py decides on the values
\* of float64 expressions (a ceil, a rounding, a comparison, the sign of a
\* sine), so those expressions are computed here as numpy computes them:
\* every operation rounds its exact result to the nearest double, ties to
\* even.  A double is <<sign, m, e>>, its value sign * m * 2^e, with m an
\* unbounded natural of exactly 53 bits (<<>> for zero).  Naturals are
\* sequences of base-2^15 digits, least significant first, without a
\* leading zero.
RECURSIVE BTrim(_)
BTrim(x) == IF x # <<>> /\ x[Len(x)] = 0 THEN BTrim(SubSeq(x, 1, Len(x) - 1)) ELSE x

\* -1, 0 or 1 as x is below, equal to or above y
RECURSIVE BCmp(_, _)
BCmp(x, y) ==
    IF Len(x) # Len(y) THEN (IF Len(x) < Len(y) THEN -1 ELSE 1)
    ELSE IF x = <<>> THEN 0
    ELSE IF x[Len(x)] # y[Len(y)] THEN (IF x[Len(x)] < y[Len(y)] THEN -1 ELSE 1)
    ELSE BCmp(SubSeq(x, 1, Len(x) - 1), SubSeq(y, 1, Len(y) - 1))

\* x + y + c
RECURSIVE BAddC(_, _, _)
BAddC(x, y, c) ==
    IF x = <<>> THEN (IF y = <<>> THEN (IF c = 0 THEN <<>> ELSE <<c>>) ELSE BAddC(y, x, c))
    ELSE IF y = <<>> THEN << (x[1] + c) % 32768 >> \o BAddC(Tail(x), y, (x[1] + c) \div 32768)
    ELSE << (x[1] + y[1] + c) % 32768 >> \o BAddC(Tail(x), Tail(y), (x[1] + y[1] + c) \div 32768)

\* x - y - b for x >= y + b, before trimming
RECURSIVE BSubC(_, _, _)
BSubC(x, y, b) ==
    IF x = <<>> THEN x
    ELSE IF y = <<>> THEN << (x[1] - b) % 32768 >> \o BSubC(Tail(x), y, IF x[1] < b THEN 1 ELSE 0)
    ELSE << (x[1] - y[1] - b) % 32768 >> \o BSubC(Tail(x), Tail(y), IF x[1] < y[1] + b THEN 1 ELSE 0)

\* x * k + c for a digit-sized k > 0
RECURSIVE BMulS(_, _, _)
BMulS(x, k, c) ==
    IF x = <<>> THEN (IF c = 0 THEN <<>> ELSE <<c>>)
    ELSE << (x[1] * k + c) % 32768 >> \o BMulS(Tail(x), k, (x[1] * k + c) \div 32768)

\* x * 2^k
BShl(x, k) == IF x = <<>> THEN x ELSE BMulS([i \in 1..(k \div 15) |-> 0] \o x, 2^(k % 15), 0)

\* floor(x / 2^k)
BShr(x, k) ==
    IF k \div 15 >= Len(x) THEN <<>>
    ELSE
    BTrim([i \in 1..(Len(x) - (k \div 15)) |->
              (x[i + (k \div 15)] \div 2^(k % 15))
              + (IF i + (k \div 15) < Len(x)
                 THEN (x[i + (k \div 15) + 1] % 2^(k % 15)) * 2^(15 - (k % 15)) ELSE 0)])

\* the number of bits of x
BBits(x) ==
    IF x = <<>> THEN 0
    ELSE 15 * (Len(x) - 1) + CHOOSE j \in 1..15 : 2^(j - 1) <= x[Len(x)] /\ x[Len(x)] < 2^j

\* one step of the long division by d: q the quotient so far, r2 twice the
\* remainder so far plus the next bit of the dividend
BDivBit(d, q, r2) ==
    IF BCmp(r2, d) >= 0 THEN <<BMulS(q, 2, 1), BTrim(BSubC(r2, d, 0))>>
    ELSE <<BMulS(q, 2, 0), r2>>

\* <<quotient, remainder>> of n by d: long division over the bits hi..lo
\* of n, from qr, the quotient and remainder of the bits above hi (the first
\* test only makes the evaluation of qr precede the descent)
RECURSIVE BDivQ(_, _, _, _, _)
BDivQ(n, d, hi, lo, qr) ==
    IF qr = <<>> THEN qr
    ELSE IF hi = lo
    THEN BDivBit(d, qr[1], BMulS(qr[2], 2, (n[(hi - 1) \div 15 + 1] \div 2^((hi - 1) % 15)) % 2))
    ELSE BDivQ(n, d, (hi + lo) \div 2, lo, BDivQ(n, d, hi, (hi + lo) \div 2 + 1, qr))

\* the double nearest to sgn * (q + f) * 2^e, where q = qr[1] has 55 or 56
\* bits and the fraction f is zero exactly if the remainder qr[2] is: keep 53
\* bits, round half to even, renormalise a carry out of the mantissa
FlNearest(sgn, qr, e) ==
    LET t    == BBits(qr[1]) - 53
        m0   == BShr(qr[1], t)
        low  == qr[1][1] % 2^t
        half == 2^(t - 1)
        up   == low > half \/ (low = half /\ (qr[2] # <<>> \/ m0[1] % 2 = 1))
        m    == IF up THEN BAddC(m0, <<>>, 1) ELSE m0
    IN  IF BBits(m) = 54 THEN <<sgn, BShr(m, 1), e + t + 1>> ELSE <<sgn, m, e + t>>

\* the double nearest to sgn * (n / d) * 2^e: bring the quotient to 55 or 56
\* bits, by shifts alone when d is 1, otherwise by scaling n or d and a long
\* division that starts below the leading bits of n that are less than d
FlRound(sgn, n, d, e) ==
    IF n = <<>> THEN <<0, <<>>, 0>>
    ELSE IF d = <<1>>
    THEN (IF BBits(n) > 56
          THEN FlNearest(sgn,
                         <<BShr(n, BBits(n) - 56),
                           IF BShl(BShr(n, BBits(n) - 56), BBits(n) - 56) = n THEN <<>> ELSE <<1>> >>,
                         e + BBits(n) - 56)
          ELSE FlNearest(sgn, <<BShl(n, 56 - BBits(n)), <<>> >>, e + BBits(n) - 56))
    ELSE LET s  == 55 - BBits(n) + BBits(d)
             nn == IF s > 0 THEN BShl(n, s) ELSE n
             dd == IF s < 0 THEN BShl(d, -s) ELSE d
             hi == BBits(nn) - BBits(dd) + 1
         IN  FlNearest(sgn, BDivQ(nn, dd, hi, 1, << <<>>, BShr(nn, hi) >>), e - s)

\* float(r) of a rational r
FromRat(r) ==
    FlRound(IF r[1] < 0 THEN -1 ELSE 1,
            BTrim(<<Abs(r[1]) % 32768, (Abs(r[1]) \div 32768) % 32768, Abs(r[1]) \div 1073741824>>),
            BTrim(<<r[2] % 32768, (r[2] \div 32768) % 32768, r[2] \div 1073741824>>), 0)

\* f * k for an integer k
FMulS(f, k) ==
    IF k = 0 THEN <<0, <<>>, 0>>
    ELSE FlRound(IF k < 0 THEN -f[1] ELSE f[1], BMulS(f[2], Abs(k), 0), <<1>>, f[3])

FDiv(x, y) == FlRound(x[1] * y[1], x[2], y[2], x[3] - y[3])

FAdd(x, y) ==
    IF x[1] = 0 THEN y
    ELSE IF y[1] = 0 THEN x
    ELSE LET e == IF x[3] < y[3] THEN x[3] ELSE y[3]
             a == BShl(x[2], x[3] - e)
             b == BShl(y[2], y[3] - e)
         IN  IF x[1] = y[1] THEN FlRound(x[1], BAddC(a, b, 0), <<1>>, e)
             ELSE IF BCmp(a, b) >= 0 THEN FlRound(x[1], BTrim(BSubC(a, b, 0)), <<1>>, e)
             ELSE FlRound(y[1], BTrim(BSubC(b, a, 0)), <<1>>, e)

\* int(np.ceil(f)) for mode "ceil", int(np.rint(f)) for mode "rint", of a
\* double below 2^30 in magnitude: g is floor(2 |f|), its last bit the half
FInt(f, mode) ==
    IF f[1] = 0 THEN 0
    ELSE LET g     == BShr(f[2], -f[3] - 1)
             q     == BShr(g, 1)
             v     == (IF Len(q) >= 1 THEN q[1] ELSE 0) + (IF Len(q) >= 2 THEN q[2] * 32768 ELSE 0)
             half  == g # <<>> /\ g[1] % 2 = 1
             below == BShl(g, -f[3] - 1) # f[2]
         IN  IF mode = "ceil"
             THEN (IF f[1] > 0 THEN v + (IF half \/ below THEN 1 ELSE 0) ELSE -v)
             ELSE f[1] * (v + (IF half /\ (below \/ v % 2 = 1) THEN 1 ELSE 0))

-----------------------------------------------------------------------------
(* The unit conversions rdn_to_rho and rho_to_rdn in float64.  A data      *)
(* vector is a sequence of doubles <<sign, mantissa, exponent>> (NaN is    *)
(* <<0, 0>>); the irradiance and the cached cosine are named by rationals  *)
(* and enter as the doubles nearest to them.  Every product and quotient   *)
(* is rounded to the nearest double, in the order the code evaluates them; *)
(* the operands are finite and non-zero.                                   *)

\* x * y on naturals
RECURSIVE BMul(_, _)
BMul(x, y) ==
    IF x = <<>> \/ y = <<>> THEN <<>>
    ELSE BTrim(BAddC(BMulS(x, y[1], 0), <<0>> \o BMul(x, Tail(y)), 0))

\* x * y on doubles
FMul(x, y) ==
    IF x[1] = 0 \/ y[1] = 0 THEN <<0, <<>>, 0>>
    ELSE FlRound(x[1] * y[1], BMul(x[2], y[2]), <<1>>, x[3] + y[3])

\* variant: the conversion without the cosine of the zenith angle
rdn_to_rho_nocoszen(engines, irr, rdn, solar_irr_arg) ==
    LET cz == coszen_of(engines)
        use == IF solar_irr_arg.isnone THEN irr ELSE solar_irr_arg.v
        rho(x, s, c) ==
            IF IsNaN(c) \/ IsNaN(x) THEN NaN
            ELSE FDiv(FMul(x, <<1, <<11544, 10376, 2029, 201>>, -51>>), FromRat(s))
    IN  IF cz.isnone THEN [exc |-> "TypeError", v |-> Raised]
        ELSE IF ~Broadcastable(rdn, use) THEN [exc |-> "ValueError", v |-> Raised]
        ELSE [exc |-> "none",
              v |-> Tup([j \in 1..BLen(rdn, use) |->
                            rho(rdn[Ix(rdn, j)], use[Ix(use, j)], cz.v)])]

\* rdn_to_rho with solar_irr given as an array, or None (then, and only
\* then, the first expression raises TypeError and self.solar_irr is used):
\* rho = rdn * np.pi / (solar_irr * self.coszen), np.pi the double
\* 7074237752028440 * 2^-51.  A coszen property of None makes both
\* expressions raise TypeError
rdn_to_rho(engines, irr, rdn, solar_irr_arg) ==
    LET cz == coszen_of(engines)
        use == IF solar_irr_arg.isnone THEN irr ELSE solar_irr_arg.v
        rho(x, s, c) ==
            IF IsNaN(c) \/ IsNaN(x) THEN NaN
            ELSE FDiv(FMul(x, <<1, <<11544, 10376, 2029, 201>>, -51>>),
                      FMul(FromRat(s), FromRat(c)))
    IN  IF cz.isnone THEN [exc |-> "TypeError", v |-> Raised]
        ELSE IF ~Broadcastable(rdn, use) THEN [exc |-> "ValueError", v |-> Raised]
        ELSE [exc |-> "none",
              v |-> Tup([j \in 1..BLen(rdn, use) |->
                            rho(rdn[Ix(rdn, j)], use[Ix(use, j)], cz.v)])]

\* rho_to_rdn with solar_irr given as an array, or None:
\* rdn = (solar_irr * self.coszen) / np.pi * rho
rho_to_rdn(engines, irr, rho, solar_irr_arg) ==
    LET cz == coszen_of(engines)
        use == IF solar_irr_arg.isnone THEN irr ELSE solar_irr_arg.v
        rdn(x, s, c) ==
            IF IsNaN(c) \/ IsNaN(x) THEN NaN
            ELSE FMul(FDiv(FMul(FromRat(s), FromRat(c)),
                           <<1, <<11544, 10376, 2029, 201>>, -51>>), x)
    IN  IF cz.isnone THEN [exc |-> "TypeError", v |-> Raised]
        ELSE IF ~Broadcastable(rho, use) THEN [exc |-> "ValueError", v |-> Raised]
        ELSE [exc |-> "none",
              v |-> Tup([j \in 1..BLen(rho, use) |->
                            rdn(rho[Ix(rho, j)], use[Ix(use, j)], cz.v)])]

\* data vectors handed to the unit conversions, one double per wavelength:
\* all 1.0, or 0.7, 1.4, 2.1, ... (none of them a binary fraction); a
\* conversion may also be fed the vector the inverse conversion returned
\* just before it. The solar_irr argument is omitted, or an array of 2.0
\* per wavelength, or the one-element array [3.0]
ConvInputs(inverse) ==
    { [data |-> d, solar_irr |-> si] :
        d \in { Const(Len(wl), FromRat(<<1, 1>>)),
                Tup([j \in 1..Len(wl) |-> FromRat(Norm(7 * j, 10))]) }
              \cup (IF call.op = inverse /\ call.exc = "none"
                    THEN {call.ret} ELSE {}),
        si \in { [isnone |-> TRUE, v |-> <<>>], Some(Const(Len(wl), <<2, 1>>)),
                 Some(<< <<3, 1>> >>) } }

RdnToRho ==
    /\ phase = "ok"
    /\ ncalls < MaxCalls
    /\ \E a \in ConvInputs("rho_to_rdn") :
          \E res \in { rdn_to_rho(rt_engines, solar_irr, a.data, a.solar_irr) } :
              call' = [op |-> "rdn_to_rho",
                       args |-> a,
                       exc |-> res.exc, ret |-> res.v,
                       tr |-> NoTrace, before |-> L_coupled]
    /\ prev' = call
    /\ ncalls' = ncalls + 1
    /\ UNCHANGED <<Frame, L_coupled, pc, loc, ga>>

RhoToRdn ==
    /\ phase = "ok"
    /\ ncalls < MaxCalls
    /\ \E a \in ConvInputs("rdn_to_rho") :
          \E res \in { rho_to_rdn(rt_engines, solar_irr, a.data, a.solar_irr) } :
              call' = [op |-> "rho_to_rdn",
                       args |-> a,
                       exc |-> res.exc, ret |-> res.v,
                       tr |-> NoTrace, before |-> L_coupled]
    /\ prev' = call
    /\ ncalls' = ncalls + 1
    /\ UNCHANGED <<Frame, L_coupled, pc, loc, ga>>

\* compositors for the unit conversions: one or two radiance-mode engines
\* whose cached cosine is 1, 1/2, 7/10 or 1/3, and single engines whose
\* cosine is NaN or absent
ConstructConv ==
    /\ phase = "new"
    /\ \E es \in { <<e>> : e \in { [BaseEngine(1) EXCEPT !.has_coszen = FALSE,
                                                          !.coszen = NaN] }
                                  \cup { [BaseEngine(1) EXCEPT !.coszen = c] :
                                           c \in { NaN, <<1, 1>>, <<1, 2>>, <<7, 10>>,
                                                   <<1, 3>> } } }
                  \cup { <<[BaseEngine(2) EXCEPT !.coszen = <<1, 1>>],
                           [BaseEngine(1) EXCEPT !.coszen = c]>> :
                         c \in { <<1, 1>>, <<1, 2>>, <<7, 10>> } } :
          __init__([radiative_transfer_engines |-> es, statevector |-> <<"H2OSTR">>,
                    unknowns |-> <<>>])

-----------------------------------------------------------------------------
(* LUT grid construction (isofit/utils/apply_oe.py, class LUTConfig)       *)

\* x < y on floats (false when either side is NaN): the integer parts
\* decide, and between equal integer parts the fractions, compared through
\* their reciprocals
RECURSIVE RLess(_, _)
RLess(x, y) ==
    IF IsNaN(x) \/ IsNaN(y) THEN FALSE
    ELSE IF x[2] = 0 \/ y[2] = 0
    THEN x # y /\ (x = <<-1, 0>> \/ y = <<1, 0>>)
    ELSE IF x[2] < 0 THEN RLess(<<0, 1>>, y)
    ELSE IF y[2] < 0 THEN RLess(x, <<0, 1>>)
    ELSE IF x[1] \div x[2] # y[1] \div y[2] THEN x[1] \div x[2] < y[1] \div y[2]
    ELSE IF y[1] % y[2] = 0 THEN FALSE
    ELSE IF x[1] % x[2] = 0 THEN TRUE
    ELSE RLess(<<y[2], y[1] % y[2]>>, <<x[2], x[1] % x[2]>>)

\* int(np.ceil(x))
Ceil(x) == -((-x[1]) \div x[2])

\* np.round(x, 4) of the double nearest to x: np.rint(x * 10000) / 10000, the
\* result named by the rational it is nearest to
Round4(x) == Norm(FInt(FMulS(FromRat(x), 10000), "rint"), 10000)

\* np.round(np.linspace(start, stop, num), 4) for num >= 2 from the doubles a
\* of start and b of stop and step = (b - a) / (num - 1): np.linspace computes
\* arange(num) * step + start and sets the last element to stop
LinRound(a, b, step, num) ==
    Tup([j \in 1..num |->
            Norm(FInt(FMulS(IF j = num THEN b ELSE FAdd(FMulS(step, j - 1), a),
                            10000), "rint"), 10000)])

\* np.linspace(minval, maxval, num) for num >= 1, passed through np.round(grid, 4)
\* when rounded; a point that is not rounded is named by its exact value
linspace(minval, maxval, num, rounded) ==
    IF rounded /\ num = 1 THEN <<Round4(minval)>>
    ELSE IF rounded
    THEN LinRound(FromRat(minval), FromRat(maxval),
                  FDiv(FAdd(FromRat(maxval), FromRat(<<-minval[1], minval[2]>>)),
                       FromRat(<<num - 1, 1>>)),
                  num)
    ELSE Tup([j \in 1..num |->
                 IF j = 1 THEN minval
                 ELSE IF j = num THEN maxval
                 ELSE RAdd(minval, RDiv(RMul(<<j - 1, 1>>, RSub(maxval, minval)),
                                        <<num - 1, 1>>))])

\* what get_grid and get_angular_grid hand back: None ("none"), an array
\* ("grid"), the centre(s) of a fitted mixture of n components ("centre",
\* "centres"; the fit itself is scikit-learn's), or an exception ("raised")
GridRet(kind, pts, n, exc) == [kind |-> kind, pts |-> pts, n |-> n, exc |-> exc]

\* variant: a grid is kept however close its first two points are
get_grid_from_keep(minval, maxval, num, min_spacing) ==
    IF num < 0 THEN GridRet("raised", <<>>, 0, "ValueError")
    ELSE IF num = 0 THEN GridRet("raised", <<>>, 0, "IndexError")
    ELSE IF num = 1 THEN GridRet("none", <<>>, 0, "none")
    ELSE GridRet("grid", linspace(minval, maxval, num,
                                  RLess(<<1, 10000>>, min_spacing)), num, "none")

\* np.abs(d) < m on doubles
FAbsLess(d, m) == FAdd(<<Abs(d[1]), d[2], d[3]>>, <<-m[1], m[2], m[3]>>)[1] < 0

\* get_grid once num_gridpoints is known: np.linspace raises on a negative
\* count, and grid[1] raises on an empty grid.  np.abs(grid[1] - grid[0]) <
\* min_spacing is decided on doubles: those of the rounded points when the
\* grid was rounded, those of np.linspace otherwise
get_grid_from(minval, maxval, num, min_spacing) ==
    IF num < 0 THEN GridRet("raised", <<>>, 0, "ValueError")
    ELSE IF num = 0 THEN GridRet("raised", <<>>, 0, "IndexError")
    ELSE IF num = 1 THEN GridRet("none", <<>>, 0, "none")
    ELSE CHOOSE ret \in
            { IF FAbsLess(IF RLess(<<1, 10000>>, min_spacing)
                          THEN FAdd(FromRat(grid[2]), FromRat(<<-grid[1][1], grid[1][2]>>))
                          ELSE FAdd(IF num = 2 THEN FromRat(maxval)
                                    ELSE FAdd(FDiv(FAdd(FromRat(maxval),
                                                        FromRat(<<-minval[1], minval[2]>>)),
                                                   FromRat(<<num - 1, 1>>)),
                                              FromRat(minval)),
                                    FromRat(<<-minval[1], minval[2]>>)),
                          FromRat(min_spacing))
              THEN GridRet("none", <<>>, 0, "none")
              ELSE GridRet("grid", grid, num, "none") :
              grid \in { linspace(minval, maxval, num, RLess(<<1, 10000>>, min_spacing)) } } :
            TRUE

\* variant: the point count rounded down instead of up
get_grid_floor(minval, maxval, spacing, min_spacing) ==
    IF spacing = <<0, 1>> THEN GridRet("none", <<>>, 0, "none")
    ELSE get_grid_from(minval, maxval,
                       -FInt(FDiv(FAdd(FromRat(minval), FromRat(<<-maxval[1], maxval[2]>>)),
                                  FromRat(spacing)), "ceil") + 1,
                       min_spacing)

\* LUTConfig.get_grid: the point count is the ceiling of the float quotient
get_grid(minval, maxval, spacing, min_spacing) ==
    IF spacing = <<0, 1>> THEN GridRet("none", <<>>, 0, "none")
    ELSE get_grid_from(minval, maxval,
                       FInt(FDiv(FAdd(FromRat(maxval), FromRat(<<-minval[1], minval[2]>>)),
                                 FromRat(spacing)), "ceil") + 1,
                       min_spacing)

\* the cell of quadrants[.,.] an angle a (whole degrees) populates, from the
\* float signs of cos and sin of np.deg2rad(a) = a * (pi / 180); <<>> when the
\* sine is exactly 0.  x is |np.deg2rad(a)|, from the double of pi / 180; q is
\* the quarter turn x lies in, counted from 0: that of |a| itself, except that
\* the double of a multiple k of 90 degrees may fall short of k * pi / 2 (x
\* and k * pi are compared as 2^136 * x and k * floor(2^135 * pi))
Quadrant(a) ==
    IF a = 0 THEN <<>>
    ELSE LET k == Abs(a) \div 90
             x == FMulS(<<1, <<7481, 17573, 32026, 142>>, -58>>, Abs(a))
             short == /\ Abs(a) % 90 = 0
                      /\ BCmp(BShl(x[2], x[3] + 136),
                              BMulS(<<8786, 28787, 23558, 26152, 6296, 12429, 4276, 23202,
                                      4639, 3>>, k, 0)) < 0
             q == (IF short THEN k - 1 ELSE k) % 4
         IN  << IF q = 0 \/ q = 3 THEN 1 ELSE 0, IF (q < 2) = (a > 0) THEN 0 ELSE 1 >>

\* the linear branch of get_angular_grid on the data's extremes, shifted by
\* 180 degrees and back when both positive-cosine quadrants are populated
angular_linear(lo, hi, crossing, spacing, min_spacing) ==
    IF crossing
    THEN CHOOSE ret \in
            { IF s.kind = "grid"
              THEN GridRet("grid", VSub(s.pts, << <<180, 1>> >>), s.n, "none")
              ELSE s :
              s \in { get_grid(<<lo + 180, 1>>, <<hi + 180, 1>>, spacing, min_spacing) } } :
            TRUE
    ELSE get_grid(<<lo, 1>>, <<hi, 1>>, spacing, min_spacing)

\* np.degrees(np.arctan2(my, mx)) of the one fitted centre (mx, my): a
\* mixture of one component has the mean of the samples' unit vectors
\* (cos a, sin a) as its centre, so the angle is the circular mean direction
\* of the data.  It is computed when it is a whole or half number of degrees
\* that the data decides: the data is mirror-symmetric about the direction
\* t / 2, every sample lies within a quarter turn of it and one lies closer
\* (then the mean vector points along it), and t / 2 is not 180, where the
\* rounding of the sines decides between 180 and -180.  The angle is named
\* by that number, in (-180, 180), up to the rounding of the float
\* computation; <<>> stands for an angle the model does not determine (a
\* mean vector of rounding noise only, the branch cut, data without such a
\* symmetry)
central_angle(angle_data) ==
    LET times(v) == Cardinality({ j \in DOMAIN angle_data : angle_data[j] % 360 = v })
        turn(j, t) == (2 * angle_data[j] - t) % 720
        off(j, t) == IF turn(j, t) <= 360 THEN turn(j, t) ELSE 720 - turn(j, t)
        axes == { t \in 0..719 :
                    /\ t # 360
                    /\ \A v \in 0..359 : times(v) = times((t - v) % 360)
                    /\ \A j \in DOMAIN angle_data : off(j, t) <= 180
                    /\ \E j \in DOMAIN angle_data : off(j, t) < 180 }
        angle(t) == Norm(IF t < 360 THEN t ELSE t - 720, 2)
    IN  IF axes = {} THEN <<>> ELSE << angle(CHOOSE t \in axes : TRUE) >>

\* variant: the centerpoint handed back as a one-element sequence
get_angular_grid_seq(angle_data, spacing, min_spacing) ==
    IF spacing = <<0, 1>> THEN GridRet("none", <<>>, 0, "none")
    ELSE LET data == { angle_data[i] : i \in DOMAIN angle_data }
             quadrants == { Quadrant(a) : a \in data } \ { <<>> }
             num_points == IF spacing = <<-1, 1>> THEN 1
                           ELSE FInt(FDiv(FromRat(<<360, 1>>), FromRat(spacing)), "ceil")
             rows == IF Len(angle_data) = 1 THEN 2 ELSE Len(angle_data)
         IN  IF Cardinality(quadrants) < 3 /\ spacing # <<-1, 1>>
             THEN angular_linear(CHOOSE a \in data : \A b \in data : a <= b,
                                 CHOOSE a \in data : \A b \in data : b <= a,
                                 { <<1, 0>>, <<1, 1>> } \subseteq quadrants,
                                 spacing, min_spacing)
             ELSE IF num_points < 1 \/ rows < num_points
                  THEN GridRet("raised", <<>>, 0, "ValueError")
             ELSE IF num_points = 1
                  THEN GridRet("centres", central_angle(angle_data), 1, "none")
             ELSE GridRet("centres", <<>>, num_points, "none")

\* get_angular_grid with units = "d" on a non-empty array of whole degrees.
\* In the clustering branch a single sample is stacked twice, and
\* scikit-learn's fit raises ValueError for n_components < 1 (a negative
\* spacing other than -1) and for fewer samples than components.  With one
\* component the scalar central_angles[0] is returned; the centres of a
\* mixture of several components depend on the EM iteration of the library
\* and are not determined here, only their number is
get_angular_grid(angle_data, spacing, min_spacing) ==
    IF spacing = <<0, 1>> THEN GridRet("none", <<>>, 0, "none")
    ELSE LET data == { angle_data[i] : i \in DOMAIN angle_data }
             quadrants == { Quadrant(a) : a \in data } \ { <<>> }
             num_points == IF spacing = <<-1, 1>> THEN 1
                           ELSE FInt(FDiv(FromRat(<<360, 1>>), FromRat(spacing)), "ceil")
             rows == IF Len(angle_data) = 1 THEN 2 ELSE Len(angle_data)
         IN  IF Cardinality(quadrants) < 3 /\ spacing # <<-1, 1>>
             THEN angular_linear(CHOOSE a \in data : \A b \in data : a <= b,
                                 CHOOSE a \in data : \A b \in data : b <= a,
                                 { <<1, 0>>, <<1, 1>> } \subseteq quadrants,
                                 spacing, min_spacing)
             ELSE IF num_points < 1 \/ rows < num_points
                  THEN GridRet("raised", <<>>, 0, "ValueError")
             ELSE IF num_points = 1
                  THEN GridRet("centre", central_angle(angle_data), 1, "none")
             ELSE GridRet("centres", <<>>, num_points, "none")

\* arguments of get_grid: those whose grid has at most MaxPoints points; among
\* them get_grid(0, 2.1, 0.7, .), whose float quotient 3.0000000000000004 lies
\* above the exact quotient 3
GridArgs ==
    { a \in [minval : { <<0, 1>>, <<1, 2>> },
             maxval : { <<0, 1>>, <<1, 6250>>, <<1, 20>>, <<1, 2>>, <<21, 10>>, <<3, 1>>,
                        <<10, 1>> },
             spacing : { <<0, 1>>, <<1, 6250>>, <<1, 4>>, <<7, 10>>, <<1, 1>>, <<2, 1>> },
             min_spacing : { <<0, 1>>, <<3, 20000>>, <<1, 10>>, <<1, 1>> }] :
        \/ a.spacing = <<0, 1>>
        \/ Ceil(RDiv(RSub(a.maxval, a.minval), a.spacing)) + 1 <= MaxPoints }

\* arguments of get_angular_grid: compact, wrapped, opposed and all-round
\* data; the centerpoint sentinel, no grid, positive spacings and a negative
\* one
AngleArgs ==
    [angle_data : { <<359, 1, 358, 2>>, <<350, 10>>, <<10, 20, 30>>, <<100, 170>>,
                    <<200, 300>>, <<45, 225>>, <<45, 135, 225>>,
                    <<45, 135, 225, 315>>, <<10>> },
     spacing : { <<-2, 1>>, <<-1, 1>>, <<0, 1>>, <<1, 1>>, <<30, 1>>, <<90, 1>>,
                 <<180, 1>>, <<360, 1>> },
     min_spacing : { <<0, 1>>, <<1, 2>>, <<50, 1>> }]

GetGrid ==
    /\ call.op = "get_grid"
    /\ call.exc = "pending"
    /\ \E res \in { get_grid(call.args.minval, call.args.maxval,
                             call.args.spacing, call.args.min_spacing) } :
          call' = [call EXCEPT !.exc = res.exc, !.ret = res]
    /\ UNCHANGED <<Frame, L_coupled, prev, ncalls, pc, loc, ga>>

GetAngularGrid ==
    /\ call.op = "get_angular_grid"
    /\ call.exc = "pending"
    /\ \E res \in { get_angular_grid(call.args.angle_data, call.args.spacing,
                                     call.args.min_spacing) } :
          call' = [call EXCEPT !.exc = res.exc, !.ret = res]
    /\ UNCHANGED <<Frame, L_coupled, prev, ncalls, pc, loc, ga>>

-----------------------------------------------------------------------------
(* apply_oe: the elevation grid and the mean elevation handed to the        *)
(* emulator, which does not support targets below sea level.               *)

\* lines 297-322 of apply_oe: the grid and the mean elevation they leave, or
\* the exception they raise; np.unique sorts and removes duplicates, and
\* subscripting None raises TypeError
apply_oe_elevation(flag_ocean_elevation, emulator_base, grid0, mean0) ==
    LET nogrid == [isnone |-> TRUE, v |-> <<>>]
        grid == IF flag_ocean_elevation THEN nogrid ELSE grid0
        mean == IF flag_ocean_elevation THEN <<0, 1>> ELSE mean0
        clamped == { IF RLess(grid.v[i], <<0, 1>>) THEN <<0, 1>> ELSE grid.v[i] :
                       i \in DOMAIN grid.v }
        unique == CHOOSE u \in [1..Cardinality(clamped) -> clamped] :
                      \A i \in 1..(Cardinality(clamped) - 1) : RLess(u[i], u[i + 1])
        floor == IF RLess(mean, <<0, 1>>) THEN <<0, 1>> ELSE mean
    IN  IF ~emulator_base THEN [exc |-> "none", grid |-> grid, mean |-> mean]
        ELSE IF ~grid.isnone /\ \E i \in DOMAIN grid.v : RLess(grid.v[i], <<0, 1>>)
        THEN IF Cardinality(clamped) = 1
             THEN [exc |-> "TypeError", grid |-> nogrid, mean |-> mean]
             ELSE [exc |-> "none", grid |-> [isnone |-> FALSE, v |-> unique],
                   mean |-> floor]
        ELSE [exc |-> "none", grid |-> grid, mean |-> floor]

ApplyOeElevation ==
    /\ call.op = "apply_oe"
    /\ call.exc = "pending"
    /\ \E res \in { apply_oe_elevation(call.args.flag_ocean_elevation,
                                       call.args.emulator_base,
                                       call.args.elevation_lut_grid,
                                       call.args.mean_elevation_km) } :
          call' = [call EXCEPT !.exc = res.exc, !.ret = res]
    /\ UNCHANGED <<Frame, L_coupled, prev, ncalls, pc, loc, ga>>

-----------------------------------------------------------------------------
(* KernelFlowsRT: the emulator keeps the list self.ga of per-MVM            *)
(* predictions, empty after construction.                                  *)

\* len(self.f.keys()) - 6: the emulator file holds one MVM per quantity
nMVMs == 4

\* stand-in for the Gaussian-process prediction of one MVM over one band: a
\* function of the MVM and of the points only
predict_single_MVM(i, points) == << RAdd(<<i, 1>>, RMul(<<i, 1>>, points)) >>

RECURSIVE predict_loop(_, _, _)
predict_loop(g, points, i) ==
    IF i > nMVMs THEN g
    ELSE predict_loop(Append(g, predict_single_MVM(i, points)), points, i + 1)

\* predict: ga is self.ga before the call; the quantities are read from the
\* head of the list
predict(g, points) ==
    LET after == predict_loop(g, points, 1)
        zeros == Const(Len(after[1]), <<0, 1>>)
    IN  [ga |-> after,
         combined |-> [rhoatm |-> after[1], sphalb |-> after[4],
                       transm_down_dir |-> after[2], transm_down_dif |-> after[3],
                       transm_up_dir |-> zeros, transm_up_dif |-> zeros,
                       thermal_upwelling |-> zeros, thermal_downwelling |-> zeros]]

\* one prediction for an atmospheric state drawn from ten
Predict ==
    /\ ncalls < MaxCalls
    /\ \E points \in { <<k, 1>> : k \in 0..9 } :
          \E res \in { predict(ga, points) } :
              /\ ga' = res.ga
              /\ call' = [op |-> "predict", args |-> [points |-> points],
                          exc |-> "none", ret |-> res.combined,
                          tr |-> NoTrace, before |-> ga]
    /\ prev' = call
    /\ ncalls' = ncalls + 1
    /\ UNCHANGED <<Frame, L_coupled, pc, loc>>

Init ==
    /\ phase = "new"
    /\ config = [radiative_transfer_engines |-> <<>>, statevector |-> <<>>,
                 unknowns |-> <<>>]
    /\ instantiated = <<>>
    /\ rt_engines = <<>>
    /\ wl = <<>>
    /\ solar_irr = <<>>
    /\ statevec_names = <<>>
    /\ bvec = <<>>
    /\ bounds = <<>>
    /\ scale = <<>>
    /\ init = <<>>
    /\ prior_mean = <<>>
    /\ prior_sigma = <<>>
    /\ topography_model = FALSE
    /\ glint_model = FALSE
    /\ L_coupled = <<>>
    /\ init_exc = NoExc
    /\ call = NoCall
    /\ prev = NoCall
    /\ ncalls = 0
    /\ pc = [t \in Threads |-> "idle"]
    /\ loc = [t \in Threads |-> <<>>]
    /\ ga = <<>>

Spec == Init /\ [][\/ Construct
                  \/ CalcRdn
                  \/ GetLCoupled]_vars

\* the Jacobian engine on a compositor
SpecJac == Init /\ [][\/ Construct
                      \/ DrdnDRT]_vars

\* two calc_rdn invocations running concurrently on one compositor
SpecConc == Init /\ [][\/ Construct
                       \/ \E t \in Threads : TStart(t)
                       \/ \E t \in Threads : TAppend(t)
                       \/ \E t \in Threads : TLoad(t)
                       \/ \E t \in Threads : TStore(t)
                       \/ \E t \in Threads : TRead(t)
                       \/ \E t \in Threads : TFinish(t)]_vars

\* queries of the merged engine quantities
SpecShared == Init /\ [][\/ Construct
                         \/ GetSharedRtmQuantities]_vars

\* the unit conversions between radiance and reflectance
SpecConv == Init /\ [][\/ ConstructConv
                       \/ RdnToRho
                       \/ RhoToRdn]_vars

\* the nuisance-parameter Jacobian on a compositor
SpecKb == Init /\ [][\/ ConstructKb
                     \/ DrdnDRTb]_vars

\* configurations with H2OSTR as the state and H2O_ABSCO as the unknown, over
\* two radiance-mode engines listed out of wavelength order, a glint one first
ConfigsCalls ==
    { c \in ConfigsKb :
        /\ c.statevector = <<"H2OSTR">>
        /\ c.unknowns = <<"H2O_ABSCO">>
        /\ Len(c.radiative_transfer_engines) = 2
        /\ c.radiative_transfer_engines[1].glint_model
        /\ c.radiative_transfer_engines[2].wl[1] = 1
        /\ \A i \in 1..Len(c.radiative_transfer_engines) :
               c.radiative_transfer_engines[i].rt_mode = "rdn" }

ConstructCalls ==
    /\ phase = "new"
    /\ \E cfg \in ConfigsCalls : __init__(cfg)

\* any sequence of calc_rdn, drdn_dRT and drdn_dRTb calls on one compositor
SpecCalls == Init /\ [][\/ ConstructCalls
                        \/ CalcRdn
                        \/ DrdnDRT
                        \/ DrdnDRTb]_vars

\* repeated predictions of one emulator
SpecKF == Init /\ [][Predict]_vars

\* apply_oe between reading the scene's location metadata and computing the
\* mean altitude: the arguments are the ocean flag, whether an emulator is
\* configured, the elevation grid of get_metadata_from_loc (none, or
\* ascending points in km) and the mean elevation
InitOe ==
    /\ phase = "new"
    /\ config = [radiative_transfer_engines |-> <<>>, statevector |-> <<>>,
                 unknowns |-> <<>>]
    /\ instantiated = <<>>
    /\ rt_engines = <<>>
    /\ wl = <<>>
    /\ solar_irr = <<>>
    /\ statevec_names = <<>>
    /\ bvec = <<>>
    /\ bounds = <<>>
    /\ scale = <<>>
    /\ init = <<>>
    /\ prior_mean = <<>>
    /\ prior_sigma = <<>>
    /\ topography_model = FALSE
    /\ glint_model = FALSE
    /\ L_coupled = <<>>
    /\ init_exc = NoExc
    /\ \E ocean \in BOOLEAN, emulator \in BOOLEAN,
          mean \in { <<-1, 4>>, <<0, 1>>, <<1, 4>> },
          grid \in { [isnone |-> TRUE, v |-> <<>>] } \cup
                   { [isnone |-> FALSE, v |-> g] :
                       g \in { h \in UNION { [1..n -> { <<-1, 2>>, <<-1, 10>>, <<0, 1>>,
                                                        <<1, 2>> }] : n \in 2..3 } :
                                 \A i \in 1..(Len(h) - 1) : RLess(h[i], h[i + 1]) } } :
          call = [op |-> "apply_oe",
                  args |-> [flag_ocean_elevation |-> ocean, emulator_base |-> emulator,
                            elevation_lut_grid |-> grid, mean_elevation_km |-> mean],
                  exc |-> "pending", ret |-> <<>>, tr |-> NoTrace, before |-> <<>>]
    /\ prev = NoCall
    /\ ncalls = 0
    /\ pc = [t \in Threads |-> "idle"]
    /\ loc = [t \in Threads |-> <<>>]
    /\ ga = <<>>

SpecOe == InitOe /\ [][ApplyOeElevation]_vars

\* the LUT grid builders, each applied to arguments drawn at the start
InitGrid ==
    /\ phase = "new"
    /\ config = [radiative_transfer_engines |-> <<>>, statevector |-> <<>>,
                 unknowns |-> <<>>]
    /\ instantiated = <<>>
    /\ rt_engines = <<>>
    /\ wl = <<>>
    /\ solar_irr = <<>>
    /\ statevec_names = <<>>
    /\ bvec = <<>>
    /\ bounds = <<>>
    /\ scale = <<>>
    /\ init = <<>>
    /\ prior_mean = <<>>
    /\ prior_sigma = <<>>
    /\ topography_model = FALSE
    /\ glint_model = FALSE
    /\ L_coupled = <<>>
    /\ init_exc = NoExc
    /\ \E op \in {"get_grid", "get_angular_grid"} :
          \E a \in IF op = "get_grid" THEN GridArgs ELSE AngleArgs :
              call = [op |-> op, args |-> a, exc |-> "pending", ret |-> <<>>,
                      tr |-> NoTrace, before |-> <<>>]
    /\ prev = NoCall
    /\ ncalls = 0
    /\ pc = [t \in Threads |-> "idle"]
    /\ loc = [t \in Threads |-> <<>>]
    /\ ga = <<>>

SpecGrid == InitGrid /\ [][\/ GetGrid
                           \/ GetAngularGrid]_vars

-----------------------------------------------------------------------------
(* Properties                                                              *)

Returned(c, op) == c.op = op /\ c.exc = "none"

\* element j of an array that broadcasts against the wavelength axis
At(a, j) == IF Len(a) = 1 THEN a[1] ELSE a[j]

\* the coupled terms a call computes from its own arguments alone
FreshCoupled(r, coszen, cos_i) ==
    get_L_coupled(<<>>, rt_engines, solar_irr, r, coszen, cos_i).ret

\* C1: two successive calc_rdn calls with identical arguments on the same
\* compositor return identical radiance vectors.
C1_Idempotent ==
    (/\ Returned(call, "calc_rdn")
     /\ Returned(prev, "calc_rdn")
     /\ call.args = prev.args)
    => call.ret = prev.ret

\* C2: the radiance calc_rdn returns is, at every wavelength,
\* L_atm + (coupled sum) / (1 - sphalb * bg_dif) + L_up: the denominator
\* divides the coupled sum only, L_up = Ls * (transm_up_dir + transm_up_dif),
\* and the background reflectances are geom.bg_rfl when supplied and the
\* foreground reflectances otherwise.
C2_RadianceFormula ==
    Returned(call, "calc_rdn") =>
        LET a == call.args
            t == call.tr
            r == get_shared_rtm_quantities(rt_engines, a.x_RT, a.geom)
            bg_dir == IF a.geom.bg_rfl.isnone THEN a.px.rfl_dir
                      ELSE a.geom.bg_rfl.v
            bg_dif == IF a.geom.bg_rfl.isnone THEN a.px.rfl_dif
                      ELSE a.geom.bg_rfl.v
        IN  /\ Len(call.ret) = Len(wl)
            /\ t.L_atm = get_L_atm(rt_engines, solar_irr, a.x_RT, a.geom).v
            /\ \A j \in 1..Len(wl) :
                 LET L_up == RMul(a.px.Ls, RAdd(r["transm_up_dir"].v[j],
                                                r["transm_up_dif"].v[j]))
                     sum == RAdd(RAdd(RAdd(RMul(At(t.Lc[1], j), a.px.rfl_dir),
                                           RMul(At(t.Lc[2], j), a.px.rfl_dif)),
                                      RMul(At(t.Lc[3], j), bg_dir)),
                                 RMul(At(t.Lc[4], j), bg_dif))
                     den == RSub(<<1, 1>>, RMul(r["sphalb"].v[j], bg_dif))
                 IN  call.ret[j] = RAdd(RAdd(t.L_atm[j], RDiv(sum, den)), L_up)

C2_Witness ==
    /\ Returned(call, "calc_rdn")
    /\ Returned(prev, "calc_rdn")
    /\ ~call.args.geom.bg_rfl.isnone
    /\ prev.args.geom.bg_rfl.isnone
    /\ Len(rt_engines) = 2

\* C8: every get_L_coupled call, whatever calls came before it, returns the
\* four terms determined by its own r, coszen and cos_i, and the retained
\* buffer never holds more than those four terms.
C8_PureCoupled ==
    /\ Returned(call, "get_L_coupled") =>
          /\ call.ret = FreshCoupled(CouplingR(call.args), call.args.coszen,
                                     call.args.cos_i)
          /\ Len(L_coupled) = 4
    /\ Returned(call, "calc_rdn") =>
          /\ call.tr.Lc =
                FreshCoupled(get_shared_rtm_quantities(rt_engines, call.args.x_RT,
                                                       call.args.geom),
                             call.tr.coszen, call.tr.cos_i)
          /\ Len(L_coupled) = 4

\* the forward model proper: calc_rdn on a compositor that has served no call
Forward(x_RT, px, geom) ==
    calc_rdn(<<>>, rt_engines, solar_irr, x_RT, Const(Len(wl), px.rfl_dir),
             Const(Len(wl), px.rfl_dif), Const(Len(wl), px.Ls), geom).ret

\* C9: column i of K_RT is (F(x_RT + eps*e_i) - F(x_RT)) / eps, where each
\* radiance F(.) is the forward-model value for its own state vector.
C9_FiniteDifference ==
    Returned(call, "drdn_dRT") =>
        LET a == call.args
            K_RT == call.ret[1]
        IN  /\ Len(K_RT) = Len(a.x_RT)
            /\ \A i \in 1..Len(a.x_RT) :
                 K_RT[i] = VOver(VSub(Forward(Perturbed(a.x_RT, i), a.px, a.geom),
                                      Forward(a.x_RT, a.px, a.geom)),
                                 Eps)

\* C7: whatever the interleaving of two calc_rdn invocations on one
\* compositor, each returns the radiance it returns when run alone on a
\* freshly constructed compositor.
C7_ConcurrentSafe ==
    \A t \in Threads :
        (pc[t] = "done" /\ loc[t].exc = "none") =>
            loc[t].ret = Forward(loc[t].args.x_RT, loc[t].args.px,
                                 loc[t].args.geom)

\* number of array elements engines 1..i-1 contribute for key k
RECURSIVE Offset(_, _, _)
Offset(rets, k, i) ==
    IF i = 1 THEN 0 ELSE Offset(rets, k, i - 1) + Len(rets[i - 1][k].v)

\* C3: the merged key set is the intersection of the engines' key sets, and
\* each merged array is the engines' arrays for that key laid end to end in
\* engine order, the engines being in ascending order of first wavelength.
C3_MergeIntersection ==
    Returned(call, "get_shared_rtm_quantities") =>
        LET \* the mappings the engines return, in engine order
            rets == [i \in 1..Len(rt_engines) |->
                        RTget(rt_engines[i], call.args.x_RT, call.args.geom)]
            n == Len(rets)
        IN  /\ DOMAIN call.ret =
                 {k \in AllKeys : \A i \in 1..n : k \in DOMAIN rets[i]}
            /\ \A i \in 1..(n - 1) : rt_engines[i].wl[1] < rt_engines[i + 1].wl[1]
            /\ \A k \in DOMAIN call.ret :
                 /\ Len(call.ret[k].v) = Offset(rets, k, n) + Len(rets[n][k].v)
                 /\ \A i \in 1..n : \A j \in 1..Len(rets[i][k].v) :
                      call.ret[k].v[Offset(rets, k, i) + j] = rets[i][k].v[j]

C3_Witness ==
    /\ Returned(call, "get_shared_rtm_quantities")
    /\ Len(rt_engines) = 2
    /\ rt_engines[1].keys # rt_engines[2].keys
    /\ DOMAIN call.ret # rt_engines[1].keys
    /\ config.radiative_transfer_engines # rt_engines

\* C4: when an instantiated engine expects a number of RT state indices
\* other than the number of statevector elements, construction fails with
\* an error citing both counts and no compositor exists.
C4_MismatchFatal ==
    \A i \in 1..Len(instantiated) :
        instantiated[i].nx # Len(config.statevector) =>
            /\ phase = "failed"
            /\ init_exc.type = "AttributeError"
            /\ init_exc.expected = Len(config.statevector)
            /\ init_exc.got = instantiated[i].nx
            /\ rt_engines = <<>>
            /\ L_coupled = <<>>

C4_Witness ==
    /\ phase = "failed"
    /\ Len(instantiated) = 2
    /\ instantiated[1].nx = Len(config.statevector)
    /\ instantiated[2].nx # Len(config.statevector)

\* the engine configuration at which the constructor stopped for an
\* unregistered engine_name, 0 if it did not
StoppedAtName ==
    IF /\ phase = "failed"
       /\ Len(instantiated) < Len(config.radiative_transfer_engines)
       /\ \A i \in 1..Len(instantiated) : instantiated[i].nx = Len(config.statevector)
    THEN Len(instantiated) + 1
    ELSE 0

\* C5: an unregistered engine_name makes construction fail with a
\* configuration error that cites the name and the set of valid names, and
\* the unknown engine is never instantiated.
C5_InvalidEngineError ==
    StoppedAtName # 0 =>
        LET confRT == config.radiative_transfer_engines[StoppedAtName] IN
        /\ confRT.engine_name \notin Engines
        /\ init_exc.type = "AttributeError"
        /\ init_exc.name = confRT.engine_name
        /\ init_exc.valid = Engines
        /\ \A i \in 1..Len(instantiated) :
             instantiated[i].engine_name \in Engines

\* C6: after a successful construction rt_engines is the configured engines
\* in ascending order of first wavelength, wl and solar_irr are the engines'
\* arrays laid end to end in that order, and wl is strictly ascending.
C6_SortedAggregate ==
    phase = "ok" =>
        LET n == Len(rt_engines)
            cfgd == config.radiative_transfer_engines
            start(i) == SumLen([j \in 1..(i - 1) |-> rt_engines[j].wl])
        IN  /\ n = Len(cfgd)
            /\ \A i \in 1..n : \E j \in 1..n : rt_engines[j] = cfgd[i]
            /\ \A i \in 1..(n - 1) : rt_engines[i].wl[1] < rt_engines[i + 1].wl[1]
            /\ Len(wl) = SumLen([i \in 1..n |-> rt_engines[i].wl])
            /\ Len(solar_irr) = Len(wl)
            /\ \A i \in 1..n : \A j \in 1..Len(rt_engines[i].wl) :
                 /\ wl[start(i) + j] = rt_engines[i].wl[j]
                 /\ solar_irr[start(i) + j] = rt_engines[i].solar_irr[j]
            /\ \A j \in 1..(Len(wl) - 1) : wl[j] < wl[j + 1]

C6_Witness ==
    /\ phase = "ok"
    /\ Len(rt_engines) = 2
    /\ config.radiative_transfer_engines[1].wl[1]
         > config.radiative_transfer_engines[2].wl[1]

\* calc_rdn of a one-engine compositor that has served no call
Alone(e, a) ==
    calc_rdn(<<>>, <<e>>, e.solar_irr, a.x_RT, Const(Len(e.wl), a.px.rfl_dir),
             Const(Len(e.wl), a.px.rfl_dif), Const(Len(e.wl), a.px.Ls), a.geom).ret

\* C10: with two solar-reflective engines of the same radiometric mode on
\* disjoint ranges of n1 and n2 wavelengths, wl, solar_irr, the path
\* radiance and the first calc_rdn result have length n1 + n2 and hold the
\* lower-wavelength engine's values followed by the higher one's.
C10_EndToEnd ==
    (/\ phase = "ok"
     /\ Len(rt_engines) = 2
     /\ rt_engines[1].rt_mode = rt_engines[2].rt_mode
     /\ \A i \in 1..2 : ~rt_engines[i].treat_as_emissive
     /\ call.op = "calc_rdn"
     /\ call.before = <<>>)
    => /\ wl = rt_engines[1].wl \o rt_engines[2].wl
       /\ solar_irr = rt_engines[1].solar_irr \o rt_engines[2].solar_irr
       /\ call.exc = "none"
       /\ Len(call.tr.L_atm) = Len(wl)
       /\ call.ret = Alone(rt_engines[1], call.args) \o Alone(rt_engines[2], call.args)

\* call undoes prev on a compositor whose cached zenith cosine is a positive
\* number: it converts what prev returned, with the same solar_irr
Undoes(first, second) ==
    /\ ~coszen_of(rt_engines).isnone
    /\ ~IsNaN(coszen_of(rt_engines).v)
    /\ coszen_of(rt_engines).v[1] > 0
    /\ Returned(prev, first)
    /\ Returned(call, second)
    /\ call.args.data = prev.ret
    /\ call.args.solar_irr = prev.args.solar_irr

\* C11: with a positive zenith cosine and a positive irradiance,
\* rho_to_rdn(rdn_to_rho(L, irr), irr) and rdn_to_rho(rho_to_rdn(rho, irr), irr)
\* reproduce L and rho within floating-point tolerance (every element of the
\* result differs from the input element by less than 2^-50 times that
\* element), with the irradiance supplied by the caller or omitted in both
\* directions.
C11_RoundTrip ==
    (Undoes("rdn_to_rho", "rho_to_rdn") \/ Undoes("rho_to_rdn", "rdn_to_rho")) =>
        /\ Len(call.ret) = Len(prev.args.data)
        /\ \A j \in 1..Len(call.ret) :
              FAbsLess(FAdd(call.ret[j],
                            <<-prev.args.data[j][1], prev.args.data[j][2],
                              prev.args.data[j][3]>>),
                       <<1, prev.args.data[j][2], prev.args.data[j][3] - 50>>)

\* a round trip through a two-engine compositor whose cosine is 7/10, with the
\* irradiance omitted, that returns its input exactly in one element and a
\* neighbouring double in another
C11_Witness ==
    /\ Undoes("rho_to_rdn", "rdn_to_rho")
    /\ call.args.solar_irr.isnone
    /\ Len(rt_engines) = 2
    /\ coszen_of(rt_engines).v = <<7, 10>>
    /\ call.ret # prev.ret
    /\ \E j \in 1..Len(call.ret) : call.ret[j] = prev.args.data[j]
    /\ \E j \in 1..Len(call.ret) : call.ret[j] # prev.args.data[j]

\* C11 as stated: the two conversions are exact inverses, the round trip
\* returns the very doubles it was given
C11_ExactInverse ==
    (Undoes("rdn_to_rho", "rho_to_rdn") \/ Undoes("rho_to_rdn", "rdn_to_rho")) =>
        call.ret = prev.args.data

\* C12: drdn_dRTb returns one sensitivity row per declared unknown, the row
\* of every unsupported unknown is all zeros of length len(wl), an empty
\* unknowns list gives no rows, and a call on unsupported unknowns alone
\* with no H2OSTR in the state vector does not raise.
C12_KbRows ==
    call.op = "drdn_dRTb" =>
        /\ (~\E i \in 1..Len(config.statevector) : config.statevector[i] = "H2OSTR")
              => call.exc = "none"
        /\ call.exc = "none" =>
              /\ Len(call.ret.rows) = Len(config.unknowns)
              /\ \A k \in 1..Len(call.ret.rows) :
                    (\/ config.unknowns[k] # "H2O_ABSCO"
                     \/ ~\E i \in 1..Len(config.statevector) :
                            config.statevector[i] = "H2OSTR")
                    => call.ret.rows[k] = Const(Len(wl), <<0, 1>>)

C14_NoGrid ==
    /\ (call.op = "get_grid" /\ call.exc # "pending" /\ ~RLess(call.args.maxval, call.args.minval)
         /\ ~RLess(call.args.spacing, <<0, 1>>)) =>
          LET a == call.args
              N == IF a.spacing = <<0, 1>> THEN 0
                   ELSE FInt(FDiv(FAdd(FromRat(a.maxval),
                                       FromRat(<<-a.minval[1], a.minval[2]>>)),
                                  FromRat(a.spacing)), "ceil") + 1
              rnd == RLess(<<1, 10000>>, a.min_spacing)
              p1 == IF rnd THEN Round4(a.minval) ELSE a.minval
              q == IF N < 2 THEN a.minval
                   ELSE RAdd(a.minval, RDiv(RSub(a.maxval, a.minval), <<N - 1, 1>>))
              p2 == IF rnd THEN Round4(q) ELSE q
              close == N >= 2 /\ RLess(<<Abs(RSub(p2, p1)[1]), RSub(p2, p1)[2]>>,
                                       a.min_spacing)
          IN  /\ call.exc = "none"
              /\ call.ret.kind \in {"none", "grid"}
              /\ (N = 1) <=> (a.spacing # <<0, 1>> /\ a.maxval = a.minval)
              /\ (call.ret.kind = "none") <=> (a.spacing = <<0, 1>> \/ N = 1 \/ close)
              /\ (call.ret.kind = "grid") => call.ret.n = N /\ Len(call.ret.pts) = N
    /\ (call.op = "get_grid" /\ call.exc # "pending" /\ ~RLess(call.args.maxval, call.args.minval)
         /\ call.args = [minval |-> <<0, 1>>, maxval |-> <<1, 20>>,
                                 spacing |-> <<1, 1>>, min_spacing |-> <<1, 10>>]) =>
          call.ret.kind = "none"

\* C14 witness: get_grid(0, 0.05, 1, 0.1) has returned None because its two
\* points are closer than min_spacing
C14_Witness ==
    /\ call.op = "get_grid"
    /\ call.exc # "pending"
    /\ call.args = [minval |-> <<0, 1>>, maxval |-> <<1, 20>>,
                    spacing |-> <<1, 1>>, min_spacing |-> <<1, 10>>]
    /\ call.ret.kind = "none"
    /\ call.exc = "none"

\* C15: on wraparound data clustered around 0/360 degrees (both positive-cosine
\* quadrants populated, no other) with a true grid requested, a grid that
\* get_angular_grid returns has no gap at the boundary wider than the
\* requested spacing: read on the circle, the last point below 360 and the
\* first point from 0 on are at most spacing apart
C15_NoBoundaryGap ==
    (/\ call.op = "get_angular_grid"
     /\ call.exc # "pending"
     /\ RLess(<<0, 1>>, call.args.spacing)
     /\ { Quadrant(call.args.angle_data[i]) : i \in DOMAIN call.args.angle_data }
            = { <<1, 0>>, <<1, 1>> }
     /\ call.ret.kind = "grid") =>
        LET on_circle == { IF RLess(p, <<0, 1>>) THEN RAdd(p, <<360, 1>>)
                           ELSE IF RLess(p, <<360, 1>>) THEN p
                           ELSE RSub(p, <<360, 1>>) :
                           p \in { call.ret.pts[j] : j \in DOMAIN call.ret.pts } }
            first == CHOOSE p \in on_circle : \A q \in on_circle : ~RLess(q, p)
            last == CHOOSE p \in on_circle : \A q \in on_circle : ~RLess(p, q)
        IN  ~RLess(call.args.spacing, RAdd(RSub(<<360, 1>>, last), first))

\* C16: in a calc_rdn call, when some engine exposes a cached coszen the
\* value of the first such engine is used (a cached NaN standing for "no
\* valid override", which falls back to the geometry); when no engine
\* exposes one, coszen is cos(geom.solar_zenith) and the call does not fail
\* for the want of it; cos_i is geom.cos_i when supplied, else coszen
C16_CoszenChoice ==
    call.op = "calc_rdn" =>
        LET geom == call.args.geom
            exposing == { i \in 1..Len(rt_engines) : rt_engines[i].has_coszen }
            first == CHOOSE i \in exposing : \A j \in exposing : i <= j
            chosen == IF exposing = {} THEN CosDeg(geom.solar_zenith)
                      ELSE IF IsNaN(rt_engines[first].coszen)
                           THEN CosDeg(geom.solar_zenith)
                           ELSE rt_engines[first].coszen
        IN  /\ exposing = {} => call.exc # "TypeError"
            /\ call.exc = "none" =>
                  /\ call.tr.coszen = chosen
                  /\ call.tr.cos_i = (IF geom.cos_i.isnone THEN chosen
                                      ELSE geom.cos_i.v)

\* C17: the path radiance calc_rdn uses is the per-engine contributions in
\* engine order: thermal_upwelling as it is for an emissive engine, rhoatm as
\* it is for a radiance-mode engine, and rhoatm * solar_irr * coszen / pi for a
\* transmittance-mode engine, with the coszen calc_rdn selected for the call
\* and the irradiance of that engine's own wavelengths (stated for engines
\* that provide the quantity, on a compositor where some engine exposes coszen)
C17_PathRadiance ==
    (/\ call.op = "calc_rdn"
     /\ \E i \in 1..Len(rt_engines) : rt_engines[i].has_coszen
     /\ \A i \in 1..Len(rt_engines) :
           (IF rt_engines[i].treat_as_emissive THEN "thermal_upwelling" ELSE "rhoatm")
               \in rt_engines[i].keys) =>
        LET x_RT == call.args.x_RT
            geom == call.args.geom
            cz == coszen_of(rt_engines).v
            coszen == IF IsNaN(cz) THEN CosDeg(geom.solar_zenith) ELSE cz
            expected ==
                hstack([i \in 1..Len(rt_engines) |->
                    LET RT == rt_engines[i]
                        r == RTget(RT, x_RT, geom)
                    IN  IF RT.treat_as_emissive THEN r["thermal_upwelling"].v
                        ELSE IF RT.rt_mode = "rdn" THEN r["rhoatm"].v
                        ELSE VMul(VOver(VScale(RT.solar_irr, coszen), Pi),
                                  r["rhoatm"].v)])
            L_atm == get_L_atm(rt_engines, solar_irr, x_RT, geom)
        IN  /\ L_atm.exc = "none"
            /\ L_atm.v = expected
            /\ call.exc = "none" => call.tr.L_atm = expected

\* C18: in every calc_rdn call that returns, first or later, the coupled
\* terms it uses are the terms computed in that call from the merged
\* quantities, the two direct ones (bi-directional, directional-hemispherical)
\* multiplied by cos_i/coszen exactly once and the two diffuse-incidence ones
\* (hemispherical-directional, bi-hemispherical) as computed
C18_RescaleOnce ==
    Returned(call, "calc_rdn") =>
        LET r == get_shared_rtm_quantities(rt_engines, call.args.x_RT, call.args.geom)
            terms == rt_engines[1].coupling_terms
            computed ==
                IF \E i \in 1..Len(terms) : ~r[terms[i]].isarr
                THEN <<r["transm_down_dir"].v,
                       VAdd(r["transm_down_dir"].v, r["transm_down_dif"].v),
                       Zero, Zero>>
                ELSE AppendTerms(<<>>, rt_engines, solar_irr, r, call.tr.coszen, 1).buf
            ratio == RDiv(call.tr.cos_i, call.tr.coszen)
        IN  /\ call.tr.Lc[1] = VScale(computed[1], ratio)
            /\ call.tr.Lc[3] = VScale(computed[3], ratio)
            /\ call.tr.Lc[2] = computed[2]
            /\ call.tr.Lc[4] = computed[4]

\* C19: every get_L_coupled invocation that returns chooses its own mode: with
\* a declared coupling term that is not an array the four terms before
\* rescaling are [transm_down_dir, transm_down_dir + transm_down_dif, 0, 0];
\* otherwise they are the declared coupling terms in declared order, each
\* wavelength multiplied by solar_irr*coszen/pi exactly when the engine that
\* provides it is in transmittance mode (stated for merged quantities that
\* hold one value per wavelength)
C19_ModePerCall ==
    (/\ Returned(call, "get_L_coupled")
     /\ \A k \in DOMAIN CouplingR(call.args) :
           CouplingR(call.args)[k].isarr => Len(CouplingR(call.args)[k].v) = Len(wl)) =>
        LET r == CouplingR(call.args)
            terms == rt_engines[1].coupling_terms
            coszen == call.args.coszen
            owner(j) == CHOOSE i \in 1..Len(rt_engines) :
                            /\ j > SumLen([k \in 1..(i - 1) |-> rt_engines[k].wl])
                            /\ j <= SumLen([k \in 1..i |-> rt_engines[k].wl])
            scaled(key) ==
                [j \in 1..Len(wl) |->
                    IF rt_engines[owner(j)].rt_mode = "transm"
                    THEN RMul(RDiv(RMul(solar_irr[j], coszen), Pi), r[key].v[j])
                    ELSE r[key].v[j]]
            unscaled ==
                IF \E i \in 1..Len(terms) : ~r[terms[i]].isarr
                THEN <<r["transm_down_dir"].v,
                       VAdd(r["transm_down_dir"].v, r["transm_down_dif"].v),
                       Zero, Zero>>
                ELSE [k \in 1..Len(terms) |-> scaled(terms[k])]
        IN  call.ret = Rescale(unscaled, coszen, call.args.cos_i)

\* C20: the columns of K_surface that drdn_dRT returns (the glint columns
\* aside) are drdn_drfl * drfl_dsurface + drdn_dLs * dLs_dsurface with
\* drdn_drfl = (L_down_dir*cos_i/coszen + L_down_dif) / (1 - sphalb*bg)
\* * transm_up_dir and drdn_dLs = transm_up_dir + transm_up_dif, coszen and
\* cos_i being the values calc_rdn uses for the same geometry: the cached
\* coszen when valid and cos(geom.solar_zenith) otherwise, cos_i defaulting
\* to that coszen
C20_SurfaceJacobian ==
    Returned(call, "drdn_dRT") =>
        LET geom == call.args.geom
            n == Len(wl)
            r == get_shared_rtm_quantities(rt_engines, call.args.x_RT, geom)
            down == get_L_down_transmitted(rt_engines, solar_irr, call.args.x_RT, geom)
            cz == coszen_of(rt_engines).v
            coszen == IF IsNaN(cz) THEN CosDeg(geom.solar_zenith) ELSE cz
            cos_i == IF geom.cos_i.isnone THEN coszen ELSE geom.cos_i.v
            drdn_drfl ==
                VMul(VDiv(VAdd(VScale(down.dir, RDiv(cos_i, coszen)), down.dif),
                          VSub(<< <<1, 1>> >>, VMul(r["sphalb"].v, call.tr.surf.bg))),
                     r["transm_up_dir"].v)
            drdn_dLs == VAdd(r["transm_up_dir"].v, r["transm_up_dif"].v)
            K_surface == call.ret[2]
            last == IF glint_model THEN Len(K_surface) - 2 ELSE Len(K_surface)
        IN  \A c \in 1..last :
                K_surface[c] = VAdd(VMul(drdn_drfl, drfl_dsurface_in(n)[c]),
                                    VMul(drdn_dLs, dLs_dsurface_in(n)[c]))

\* C21: the compositor's glint flag is the OR of its engines' flags; when it
\* is set, a drdn_dRT call that returns has put
\* L_down_dir*(transm_up_dir+transm_up_dif)/(1-sphalb*bg) in the last but one
\* column of K_surface and L_down_dif*(transm_up_dir+transm_up_dif)/(1-sphalb*bg)
\* in the last, every other column being drdn_drfl*drfl_dsurface +
\* drdn_dLs*dLs_dsurface; when it is not set every column is the latter
C21_GlintColumns ==
    /\ phase = "ok" =>
          (glint_model <=> \E i \in 1..Len(rt_engines) : rt_engines[i].glint_model)
    /\ Returned(call, "drdn_dRT") =>
          LET n == Len(wl)
              r == get_shared_rtm_quantities(rt_engines, call.args.x_RT, call.args.geom)
              s == call.tr.surf
              up == VAdd(r["transm_up_dir"].v, r["transm_up_dif"].v)
              den == VSub(<< <<1, 1>> >>, VMul(r["sphalb"].v, s.bg))
              K_surface == call.ret[2]
              ncol == Len(K_surface)
          IN  /\ ncol = Len(drfl_dsurface_in(n))
              /\ \A c \in 1..ncol :
                    K_surface[c] =
                        IF glint_model /\ c = ncol - 1
                        THEN VDiv(VMul(s.L_down_dir, up), den)
                        ELSE IF glint_model /\ c = ncol
                        THEN VDiv(VMul(s.L_down_dif, up), den)
                        ELSE VAdd(VMul(s.drdn_drfl, drfl_dsurface_in(n)[c]),
                                  VMul(s.drdn_dLs, dLs_dsurface_in(n)[c]))

\* C21 witness: a drdn_dRT call on a glint compositor has returned a
\* K_surface whose last two columns differ from each other and from the
\* chain-rule value of the last column
C21_Witness ==
    /\ Returned(call, "drdn_dRT")
    /\ glint_model
    /\ call.ret[2][Len(call.ret[2])] # call.ret[2][Len(call.ret[2]) - 1]
    /\ call.ret[2][Len(call.ret[2])] #
          VAdd(VMul(call.tr.surf.drdn_drfl, drfl_dsurface_in(Len(wl))[Len(call.ret[2])]),
               VMul(call.tr.surf.drdn_dLs, dLs_dsurface_in(Len(wl))[Len(call.ret[2])]))
    /\ ~IsNaN(call.ret[2][Len(call.ret[2])][1])

\* C22: with H2O_ABSCO among the unknowns and H2OSTR in the state vector, the
\* row drdn_dRTb computes for H2O_ABSCO is (rdn(x') - rdn(x_RT)) / eps, where
\* x' is x_RT with its H2OSTR element multiplied by 1 + eps and each radiance
\* is the forward-model value of its own state vector
C22_KbFiniteDifference ==
    (/\ Returned(call, "drdn_dRTb")
     /\ \E k \in 1..Len(config.unknowns) : config.unknowns[k] = "H2O_ABSCO"
     /\ \E i \in 1..Len(config.statevector) : config.statevector[i] = "H2OSTR") =>
        LET a == call.args
            x == PerturbedRel(a.x_RT, IndexOf(config.statevector, "H2OSTR")).x_RT_perturb
        IN  /\ call.ret.rows # <<>>
            /\ \A i \in 1..Len(x) :
                  x[i] = IF config.statevector[i] = "H2OSTR"
                         THEN RMul(a.x_RT[i], RAdd(<<1, 1>>, Eps))
                         ELSE a.x_RT[i]
            /\ call.ret.rows[1] = VOver(VSub(Forward(x, a.px, a.geom),
                                             Forward(a.x_RT, a.px, a.geom)),
                                        Eps)

\* C23: get_angular_grid with a true grid requested (spacing neither 0 nor
\* -1) runs the plain linear grid whenever the input angles occupy at most
\* three of the four quadrants, and clusters only when all four are populated
C23_LinearUpToThree ==
    (/\ call.op = "get_angular_grid"
     /\ call.exc # "pending"
     /\ call.args.spacing \notin { <<0, 1>>, <<-1, 1>> }) =>
        LET a == call.args
            data == { a.angle_data[i] : i \in DOMAIN a.angle_data }
            quadrants == { Quadrant(d) : d \in data } \ { <<>> }
        IN  IF Cardinality(quadrants) <= 3
            THEN call.ret = angular_linear(CHOOSE d \in data : \A b \in data : d <= b,
                                           CHOOSE d \in data : \A b \in data : b <= d,
                                           { <<1, 0>>, <<1, 1>> } \subseteq quadrants,
                                           a.spacing, a.min_spacing)
            ELSE call.ret.kind \in { "centre", "centres", "raised" }

\* C24: get_angular_grid falls back to clustering, and never runs the plain
\* linear grid on the raw minimum and maximum, whenever the data populates two
\* diagonally opposite quadrants or only a centerpoint is requested
C24_ClusterOnOpposite ==
    (/\ call.op = "get_angular_grid"
     /\ call.exc # "pending"
     /\ call.args.spacing # <<0, 1>>) =>
        LET a == call.args
            quadrants == { Quadrant(a.angle_data[i]) : i \in DOMAIN a.angle_data }
            opposite == \/ { <<1, 0>>, <<0, 1>> } \subseteq quadrants
                        \/ { <<0, 0>>, <<1, 1>> } \subseteq quadrants
        IN  (opposite \/ a.spacing = <<-1, 1>>) =>
                call.ret.kind \notin { "grid", "none" }

\* C25: in the clustering fallback of get_angular_grid the number of clusters
\* K is 1 for spacing -1 and ceil(360/spacing) otherwise.  A centerpoint
\* request yields a single scalar for every non-empty input, a single sample
\* included.  Otherwise the fit raises ValueError when K is below 1 (a
\* negative spacing) or the input has fewer than K samples, yields a single
\* scalar when K is 1, and else exactly K centre angles.  The scalar is the
\* arctangent of the mean of the samples' unit vectors, the circular mean
\* direction of the input: an angle in (-180, 180] about which as many
\* samples lie at each deviation as at the opposite one, none of them more
\* than a quarter turn away; for a single sample it is that sample's angle.
C25_ClusterCount ==
    (/\ call.op = "get_angular_grid"
     /\ call.exc # "pending"
     /\ call.args.spacing # <<0, 1>>
     /\ call.ret.kind \notin { "grid", "none" }) =>
        LET a == call.args
            K == IF a.spacing = <<-1, 1>> THEN 1
                 ELSE Ceil(RDiv(<<360, 1>>, a.spacing))
            deviation(j, c) ==
                (2 * a.angle_data[j] * c[2] - 2 * c[1]) % (720 * c[2])
            mirrored(c) ==
                \A j \in DOMAIN a.angle_data :
                    /\ \/ deviation(j, c) <= 180 * c[2]
                       \/ deviation(j, c) >= 540 * c[2]
                    /\ Cardinality({ i \in DOMAIN a.angle_data :
                                       deviation(i, c) = deviation(j, c) })
                       = Cardinality({ i \in DOMAIN a.angle_data :
                                         (deviation(i, c) + deviation(j, c))
                                         % (720 * c[2]) = 0 })
            scalar == /\ call.ret.kind = "centre"
                      /\ call.ret.n = 1
                      /\ call.exc = "none"
                      /\ Len(call.ret.pts) <= 1
                      /\ Len(a.angle_data) = 1 =>
                             /\ call.ret.pts # <<>>
                             /\ call.ret.pts[1][2] = 1
                             /\ (360 + call.ret.pts[1][1]) % 360 = a.angle_data[1] % 360
                      /\ call.ret.pts # <<>> =>
                             /\ RLess(<<-180, 1>>, call.ret.pts[1])
                             /\ ~RLess(<<180, 1>>, call.ret.pts[1])
                             /\ mirrored(call.ret.pts[1])
                             /\ \E j \in DOMAIN a.angle_data :
                                    \/ deviation(j, call.ret.pts[1]) < 180 * call.ret.pts[1][2]
                                    \/ deviation(j, call.ret.pts[1]) > 540 * call.ret.pts[1][2]
        IN  IF a.spacing = <<-1, 1>> THEN scalar
            ELSE IF K < 1 \/ Len(a.angle_data) < K
            THEN call.ret.kind = "raised" /\ call.exc = "ValueError"
            ELSE IF K = 1 THEN scalar
            ELSE call.ret.kind = "centres" /\ call.ret.n = K

\* a centerpoint request on the samples 350 and 10, answered by the scalar 0
\* (their circular mean direction; their arithmetic mean is 180)
C25_Witness ==
    /\ call.op = "get_angular_grid"
    /\ call.exc = "none"
    /\ call.args.spacing = <<-1, 1>>
    /\ call.args.angle_data = <<350, 10>>
    /\ call.ret.kind = "centre"
    /\ call.ret.pts = << <<0, 1>> >>

\* C25 as stated: outside centerpoint mode the clustering fallback always
\* yields a sequence of exactly K = ceil(360/spacing) centre angles
C25_AlwaysKCentres ==
    (/\ call.op = "get_angular_grid"
     /\ call.exc # "pending"
     /\ call.args.spacing \notin { <<0, 1>>, <<-1, 1>> }
     /\ call.ret.kind \notin { "grid", "none" }) =>
        /\ call.ret.kind = "centres"
        /\ call.ret.n = Ceil(RDiv(<<360, 1>>, call.args.spacing))

\* C26: whenever every engine's pass of get_L_down_transmitted succeeds, the
\* total, direct and diffuse vectors it returns each have len(wl) elements,
\* for every mix of engines, emissive ones included
C26_DownLengths ==
    (/\ phase = "ok"
     /\ call.op = "drdn_dRT"
     /\ \A i \in 1..Len(rt_engines) :
            L_down_of(rt_engines, solar_irr, rt_engines[i], call.args.x_RT,
                      call.args.geom).exc = "none") =>
        LET down == get_L_down_transmitted(rt_engines, solar_irr, call.args.x_RT,
                                           call.args.geom)
        IN  /\ down.exc = "none"
            /\ Len(down.tot) = Len(wl)
            /\ Len(down.dir) = Len(wl)
            /\ Len(down.dif) = Len(wl)

\* C27: once the compositor is constructed no call changes its engine list
\* and order, wl, solar_irr, bounds, scale, init, prior_mean, prior_sigma,
\* bvec or statevec_names (nor its flags): after every step they are what
\* construction derived from the configuration, and drdn_dRT and drdn_dRTb
\* leave the caller's x_RT array as it was passed in
C27_FrameKept ==
    [][/\ phase = "ok" => Frame' = Frame
       /\ phase' = "ok" =>
              /\ rt_engines' = SortEngines(instantiated')
              /\ wl' = Flatten([i \in 1..Len(rt_engines') |-> rt_engines'[i].wl])
              /\ solar_irr' =
                   Flatten([i \in 1..Len(rt_engines') |-> rt_engines'[i].solar_irr])
              /\ statevec_names' = config'.statevector
              /\ bvec' = config'.unknowns
              /\ \A i \in 1..Len(config'.statevector) :
                     /\ bounds'[i] = get_elements(config'.statevector)[i].bounds
                     /\ scale'[i] = get_elements(config'.statevector)[i].scale
                     /\ init'[i] = get_elements(config'.statevector)[i].init
                     /\ prior_mean'[i] = get_elements(config'.statevector)[i].prior_mean
                     /\ prior_sigma'[i] = get_elements(config'.statevector)[i].prior_sigma
              /\ Len(bounds') = Len(config'.statevector)
       /\ call'.op \in { "drdn_dRT", "drdn_dRTb" } =>
              call'.tr.x_RT = call'.args.x_RT]_vars

\* a drdn_dRTb call that perturbed a non-zero H2OSTR, made after a drdn_dRT
\* call, on a compositor whose engines were listed out of wavelength order
C27_Witness ==
    /\ phase = "ok"
    /\ ncalls = 2
    /\ prev.op = "drdn_dRT"
    /\ Returned(call, "drdn_dRTb")
    /\ call.ret.rows # <<>>
    /\ call.args.x_RT[IndexOf(statevec_names, "H2OSTR")] = <<1, 1>>
    /\ call.tr.x_RT = call.args.x_RT
    /\ rt_engines # config.radiative_transfer_engines
    /\ bounds = << << <<1, 2>>, <<5, 1>> >> >>
    /\ bvec = <<"H2O_ABSCO">>

\* C28: for angles confined to an arc shorter than 180 degrees that straddles
\* 0/360 (only the two quadrants next to 0 populated), get_angular_grid with
\* a positive spacing returns, modulo 360, what get_grid returns for the same
\* data on the continuous branch -90..90: the same points, and no grid
\* exactly when get_grid gives none
C28_RotationEquivariant ==
    (/\ call.op = "get_angular_grid"
     /\ call.exc # "pending"
     /\ RLess(<<0, 1>>, call.args.spacing)
     /\ { Quadrant(call.args.angle_data[i]) : i \in DOMAIN call.args.angle_data }
            = { <<1, 0>>, <<1, 1>> }) =>
        LET a == call.args
            branch == { IF a.angle_data[i] > 180 THEN a.angle_data[i] - 360
                        ELSE a.angle_data[i] : i \in DOMAIN a.angle_data }
            lo == CHOOSE x \in branch : \A y \in branch : x <= y
            hi == CHOOSE x \in branch : \A y \in branch : y <= x
            expected == get_grid(<<lo, 1>>, <<hi, 1>>, a.spacing, a.min_spacing)
            Mod360(p) == IF RLess(p, <<0, 1>>) THEN RAdd(p, <<360, 1>>)
                         ELSE IF RLess(p, <<360, 1>>) THEN p
                         ELSE RSub(p, <<360, 1>>)
        IN  /\ call.ret.kind = expected.kind
            /\ { Mod360(call.ret.pts[j]) : j \in DOMAIN call.ret.pts }
                   = { Mod360(expected.pts[j]) : j \in DOMAIN expected.pts }

\* C29: every predict call returns the quantities computed from the points
\* of that call, as a freshly constructed emulator does, and the retained
\* list of per-MVM predictions holds one entry per MVM after every call
C29_PredictFresh ==
    call.op = "predict" =>
        /\ call.ret = predict(<<>>, call.args.points).combined
        /\ Len(ga) = nMVMs

\* C30: with an emulator configured and an elevation grid holding points
\* below 0 km, apply_oe sets those points to 0, de-duplicates the grid and
\* goes on without raising; when exactly one point remains the grid becomes
\* "no grid" and the mean elevation that point, 0
C30_SinglePointGrid ==
    (/\ call.op = "apply_oe"
     /\ call.exc # "pending"
     /\ call.args.emulator_base
     /\ ~call.args.flag_ocean_elevation
     /\ ~call.args.elevation_lut_grid.isnone
     /\ \E i \in DOMAIN call.args.elevation_lut_grid.v :
            RLess(call.args.elevation_lut_grid.v[i], <<0, 1>>)) =>
        LET g == call.args.elevation_lut_grid.v
            kept == { IF RLess(g[i], <<0, 1>>) THEN <<0, 1>> ELSE g[i] : i \in DOMAIN g }
        IN  /\ call.exc = "none"
            /\ IF Cardinality(kept) = 1
               THEN call.ret.grid.isnone /\ call.ret.mean = <<0, 1>>
               ELSE /\ ~call.ret.grid.isnone
                    /\ { call.ret.grid.v[i] : i \in DOMAIN call.ret.grid.v } = kept
                    /\ Len(call.ret.grid.v) = Cardinality(kept)

====
